---- MODULE Spec2Model ----
(***************************************************************************)
(* Model of the local tile cache-and-serve subsystem of EMMA               *)
(* (src/UI/tile_server.py) with the tile server threads that the map       *)
(* widget starts (src/UI/map_widget.py), and of the area manager and the   *)
(* map view of the user interface.                                         *)
(*                                                                         *)
(* Strings of the program (request paths, path segments, source tags) are  *)
(* sequences of one-character strings, so that split, lower, int and       *)
(* replace are computed as Python computes them.                           *)
(***************************************************************************)
EXTENDS Integers, Sequences, FiniteSets, TLC

(***************************************************************************)
(* Bounds of the model                                                     *)
(***************************************************************************)
\* total number of HTTP requests clients issue in one behaviour
MaxReq == 2
\* the number of LocalTileServer threads alive at one time on the cache
\* directory. MapWidget.__init__ creates and starts one (map_widget.py,
\* lines 82 to 84) and raises AttributeError ten lines further on, where it
\* connects the signal markerAdded that MapBridge does not have: the first
\* MapWidget() of MainWindow.__init__ ends the construction, so that a run
\* of the program starts one tile server and builds no window. Several
\* servers are the servers of several runs of the program from one
\* directory; a server is followed for as long as its process lives.
MaxServers == 2

(***************************************************************************)
(* Program constants                                                       *)
(***************************************************************************)
\* run(): for port in range(8080, 8100)
FirstPort == 8080
PortLimit == 8100
\* int() raises ValueError for a string of more decimal digits than
\* sys.int_info.default_max_str_digits
default_max_str_digits == 4300

Servers == 1..MaxServers
CandidatePorts == FirstPort..(PortLimit - 1)

(***************************************************************************)
(* Python string helpers                                                   *)
(***************************************************************************)
Digits == {"0", "1", "2", "3", "4", "5", "6", "7", "8", "9"}

DigitVal(c) ==
    CASE c = "0" -> 0 [] c = "1" -> 1 [] c = "2" -> 2 [] c = "3" -> 3
      [] c = "4" -> 4 [] c = "5" -> 5 [] c = "6" -> 6 [] c = "7" -> 7
      [] c = "8" -> 8 [] c = "9" -> 9

\* str.lower() on the characters the model uses
LowerChar(c) ==
    CASE c = "T" -> "t" [] c = "O" -> "o" [] c = "P" -> "p"
      [] c = "S" -> "s" [] c = "M" -> "m"
      [] OTHER -> c

lower(s) == [i \in 1..Len(s) |-> LowerChar(s[i])]

\* position of the first occurrence of character c in s at or after i, 0 if none
RECURSIVE FindChar(_, _, _)
FindChar(s, c, i) ==
    IF i > Len(s) THEN 0
    ELSE IF s[i] = c THEN i
    ELSE FindChar(s, c, i + 1)

\* s.split(c): the sequence of the pieces of s between occurrences of c
RECURSIVE split(_, _)
split(s, c) ==
    LET p == FindChar(s, c, 1) IN
    IF p = 0 THEN <<s>>
    ELSE <<SubSeq(s, 1, p - 1)>> \o split(SubSeq(s, p + 1, Len(s)), c)

\* the value of a digit string; the underscores int() accepts between digits
\* are skipped
RECURSIVE DigitsVal(_, _)
DigitsVal(s, acc) ==
    IF s = <<>> THEN acc
    ELSE IF s[1] = "_" THEN DigitsVal(Tail(s), acc)
    ELSE DigitsVal(Tail(s), 10 * acc + DigitVal(s[1]))

\* int(s): an optional sign followed by decimal digits, with single
\* underscores allowed between two digits, and no more digits than the
\* limit of the conversion; IntOk says that int(s) does not raise ValueError
IntOk(s) ==
    LET b == IF Len(s) > 0 /\ s[1] \in {"-", "+"} THEN Tail(s) ELSE s IN
    /\ Len(b) > 0
    /\ Cardinality({i \in 1..Len(b) : b[i] \in Digits}) <= default_max_str_digits
    /\ \A i \in 1..Len(b) :
          \/ b[i] \in Digits
          \/ /\ b[i] = "_"
             /\ 1 < i /\ i < Len(b)
             /\ b[i - 1] \in Digits /\ b[i + 1] \in Digits
int(s) == IF Len(s) > 0 /\ s[1] = "-" THEN 0 - DigitsVal(Tail(s), 0)
          ELSE IF Len(s) > 0 /\ s[1] = "+" THEN DigitsVal(Tail(s), 0)
          ELSE DigitsVal(s, 0)

\* "/".join(parts)
RECURSIVE join(_)
join(parts) ==
    IF Len(parts) = 0 THEN <<>>
    ELSE IF Len(parts) = 1 THEN parts[1]
    ELSE parts[1] \o <<"/">> \o join(Tail(parts))

(***************************************************************************)
(* Request paths the clients send                                          *)
(***************************************************************************)
TILES == <<"t", "i", "l", "e", "s">>
TOPO == <<"T", "O", "P", "O">>
PNG == <<".", "p", "n", "g">>

TilePath(source, z, x, y) == join(<<<<>>, TILES, source, z, x, y \o PNG>>)

\* GET /tiles/TOPO/14/1/2.png
PathA == TilePath(TOPO, <<"1", "4">>, <<"1">>, <<"2">>)

OSM == <<"O", "S", "M">>
RESOURCES == <<"r", "e", "s", "o", "u", "r", "c", "e", "s">>

\* GET /tiles/TOPO/z/1/2.png, /tiles/TOPO/14/x/2.png, /tiles/TOPO/14/1/y.png:
\* a zoom, x or y segment that int() rejects
PathBadZoom == TilePath(TOPO, <<"z">>, <<"1">>, <<"2">>)
PathBadX == TilePath(TOPO, <<"1", "4">>, <<"x">>, <<"2">>)
PathBadY == TilePath(TOPO, <<"1", "4">>, <<"1">>, <<"y">>)
\* GET /tiles/TOPO/14/1: no y segment
PathNoY == join(<<<<>>, TILES, TOPO, <<"1", "4">>, <<"1">>>>)
\* GET /tiles/TOPO/14: neither x nor y, too short for the tile branch
PathShort == join(<<<<>>, TILES, TOPO, <<"1", "4">>>>)
\* GET /tiles/OSM/14/1/2.png: a source other than topo
PathOSM == TilePath(OSM, <<"1", "4">>, <<"1">>, <<"2">>)
\* GET /resources/js/a.js: a file of the resource directory
PathRes == join(<<<<>>, RESOURCES, <<"j", "s">>, <<"a", ".", "j", "s">>>>)

\* GET /tiles/TOPO/1_4/1/2.png: the zoom written with an underscore, which
\* int() reads as 14
PathUnderscore == TilePath(TOPO, <<"1", "_", "4">>, <<"1">>, <<"2">>)

PathInputs ==
    {PathA, PathBadZoom, PathBadX, PathBadY, PathNoY, PathShort, PathOSM, PathRes,
     PathUnderscore}

\* GET /tiles/Topo/14/1/2.png: the tile of PathA with the source in mixed case
PathMixed == TilePath(<<"T", "o", "p", "o">>, <<"1", "4">>, <<"1">>, <<"2">>)
\* GET /tiles/topo/1/41/2.png: lower case, other integers with the same digits
PathB == TilePath(<<"t", "o", "p", "o">>, <<"1">>, <<"4", "1">>, <<"2">>)

CaseInputs == {PathA, PathMixed, PathB}

\* GET /resources/<rest>
ResourcePath(rest) == <<"/">> \o RESOURCES \o <<"/">> \o rest

\* GET /resources/c.css, /resources/t.txt: files of the resource directory
PathCss == ResourcePath(<<"c", ".", "c", "s", "s">>)
PathTxt == ResourcePath(<<"t", ".", "t", "x", "t">>)
\* GET /resources/n.js: no such file
PathMissing == ResourcePath(<<"n", ".", "j", "s">>)
\* GET /resources/js: a directory
PathDir == ResourcePath(<<"j", "s">>)
\* GET /resources/../s.js: a file next to the resource directory
PathDotDot == ResourcePath(<<".", ".", "/", "s", ".", "j", "s">>)
\* GET /resources//app/s.js: the same file by its absolute path
PathAbsolute == ResourcePath(<<"/", "a", "p", "p", "/", "s", ".", "j", "s">>)
\* GET /app/s.js/resources/: '/resources/' after the first segments
PathInside == <<"/", "a", "p", "p", "/", "s", ".", "j", "s", "/">> \o RESOURCES \o <<"/">>
\* GET /x
PathOther == <<"/", "x">>

\* GET /resources/../cache/TOPO/14/1/2.png: the cache file of the tile of PathA
PathCacheTile ==
    ResourcePath(join(<<<<".", ".">>, <<"c", "a", "c", "h", "e">>, TOPO,
                        <<"1", "4">>, <<"1">>, <<"2">> \o PNG>>))
\* GET /resources/../cache: the cache directory
PathCacheDir == ResourcePath(<<".", ".", "/", "c", "a", "c", "h", "e">>)
\* GET /resources/nx/../c.css: through a directory that does not exist
PathThroughMissing ==
    ResourcePath(<<"n", "x", "/", ".", ".", "/", "c", ".", "c", "s", "s">>)
\* GET /resources/c.css/: a file name followed by a slash
PathFileSlash == ResourcePath(<<"c", ".", "c", "s", "s", "/">>)

ResourceInputs ==
    {PathA, PathRes, PathCss, PathTxt, PathMissing, PathDir,
     PathDotDot, PathAbsolute, PathInside, PathOther, PathShort,
     PathCacheTile, PathCacheDir, PathFileSlash, PathThroughMissing}


(***************************************************************************)
(* Parsing of a GET path by do_GET                                         *)
(***************************************************************************)
\* the character sequence pat occurs in s at position i
MatchAt(s, pat, i) ==
    i + Len(pat) - 1 <= Len(s) /\ SubSeq(s, i, i + Len(pat) - 1) = pat

\* pat in s
contains(s, pat) == \E i \in 1..Len(s) : MatchAt(s, pat, i)

\* s.replace(pat, ''): every non-overlapping occurrence, left to right
RECURSIVE remove(_, _)
remove(s, pat) ==
    IF s = <<>> THEN <<>>
    ELSE IF MatchAt(s, pat, 1) THEN remove(SubSeq(s, Len(pat) + 1, Len(s)), pat)
    ELSE <<s[1]>> \o remove(Tail(s), pat)

\* s.endswith(suf)
endswith(s, suf) == Len(s) >= Len(suf) /\ SubSeq(s, Len(s) - Len(suf) + 1, Len(s)) = suf

\* parts = self.path.split('/')
Parts(path) == split(path, "/")

\* the condition of the tile branch: len(parts) >= 5 and parts[1] == 'tiles'
IsTileRequest(path) == Len(Parts(path)) >= 5 /\ Parts(path)[2] = TILES

\* parts[i].split('.')[0]
Stem(seg) == split(seg, ".")[1]

\* the try block raises ValueError (int) or IndexError (parts[5])
TileParseOk(path) ==
    LET parts == Parts(path) IN
    /\ IntOk(parts[4])
    /\ IntOk(Stem(parts[5]))
    /\ Len(parts) >= 6
    /\ IntOk(Stem(parts[6]))

\* a source check that accepts every source tag
IsTopo_any(source) == lower(source) = lower(source)

\* tile_source.lower() == 'topo'
IsTopo(source) == lower(source) = lower(TOPO)

\* get_tile_path without the upper-casing of the tag
CacheSource_as_given(source) == source

\* get_tile_path: the source tag as it is used in the cache path
CacheSource(source) == IF IsTopo(source) THEN TOPO ELSE source

\* the directory get_tile_path creates: cache_dir/source/z/x
TileDir(path) ==
    LET parts == Parts(path) IN
    <<CacheSource(parts[3]), int(parts[4]), int(Stem(parts[5]))>>

\* the file get_tile_path returns: cache_dir/source/z/x/y.png
get_tile_path(path) ==
    LET parts == Parts(path) IN
    <<CacheSource(parts[3]), int(parts[4]), int(Stem(parts[5])), int(Stem(parts[6]))>>

\* a path that reaches get_tile
IsTopoTile(path) ==
    IsTileRequest(path) /\ TileParseOk(path) /\ IsTopo(Parts(path)[3])

\* str(n) for an integer n
RECURSIVE NatStr(_)
NatStr(n) ==
    LET d == CHOOSE c \in Digits : DigitVal(c) = n % 10
    IN IF n < 10 THEN <<d>> ELSE Append(NatStr(n \div 10), d)
str(n) == IF n < 0 THEN <<"-">> \o NatStr(0 - n) ELSE NatStr(n)

\* self.cache_dir
CACHE_DIR == <<"/", "a", "p", "p", "/", "c", "a", "c", "h", "e">>

\* the file name get_tile_path builds for a key:
\* os.path.join(cache_dir, tile_source, str(z), str(x)) and f"{y}.png"
CachePath(key) ==
    join(<<CACHE_DIR, key[1], str(key[2]), str(key[3]), str(key[4]) \o PNG>>)

(***************************************************************************)
(* The upstream tile provider                                              *)
(***************************************************************************)
\* bodies the upstream may send
UpBodies == {<<>>, <<1, 2>>, <<3>>}

\* what one upstream request ends in:
\*   kind "refused": no HTTP response (connection error), status 0
\*   kind "http":    a complete HTTP response with that status and body
\*   kind "reset":   status line and headers received, the connection breaks
\*                   while the body is read
Upstream ==
    {[kind |-> "refused", status |-> 0, body |-> <<>>],
     [kind |-> "http", status |-> 404, body |-> <<>>],
     [kind |-> "reset", status |-> 200, body |-> <<>>]}
    \cup {[kind |-> "http", status |-> 200, body |-> b] : b \in UpBodies}
    \cup {[kind |-> "http", status |-> 203, body |-> <<3>>]}

\* urllib.request.urlopen raises URLError when no response is received and
\* HTTPError (a URLError) when the status is not 2xx
urlopen_raises(up) ==
    up.kind = "refused" \/ ~(up.status >= 200 /\ up.status < 300)


(***************************************************************************)
(* The resource directory (static files next to the program)               *)
(***************************************************************************)
\* self.resource_dir
RESOURCE_DIR == <<"/", "a", "p", "p", "/", "r", "e", "s", "o", "u", "r", "c", "e", "s">>

\* the regular files the program is installed with, and their content
LocalFiles ==
    (<<"/", "a", "p", "p", "/", "r", "e", "s", "o", "u", "r", "c", "e", "s", "/", "j", "s", "/", "a", ".", "j", "s">> :> <<7>>) @@
    (<<"/", "a", "p", "p", "/", "r", "e", "s", "o", "u", "r", "c", "e", "s", "/", "c", ".", "c", "s", "s">> :> <<8>>) @@
    (<<"/", "a", "p", "p", "/", "r", "e", "s", "o", "u", "r", "c", "e", "s", "/", "i", ".", "p", "n", "g">> :> <<9>>) @@
    (<<"/", "a", "p", "p", "/", "r", "e", "s", "o", "u", "r", "c", "e", "s", "/", "t", ".", "t", "x", "t">> :> <<10>>) @@
    (<<"/", "a", "p", "p", "/", "s", ".", "j", "s">> :> <<11>>)

\* the directories that exist once a MapWidget is constructed: the program
\* directory, the resource and cache directories it creates there, and a
\* subdirectory of the resources
LocalDirs ==
    {<<"/">>, <<"/", "a", "p", "p">>, CACHE_DIR, RESOURCE_DIR,
     RESOURCE_DIR \o <<"/", "j", "s">>}

\* os.path.join(a, b) for a directory a without trailing slash
os_path_join(a, b) ==
    IF Len(b) > 0 /\ b[1] = "/" THEN b ELSE a \o <<"/">> \o b

\* the Content-type header of a resource response ("" when none is sent)
ContentType(local_path) ==
    IF endswith(local_path, <<".", "j", "s">>) THEN "application/javascript"
    ELSE IF endswith(local_path, <<".", "c", "s", "s">>) THEN "text/css"
    ELSE IF endswith(local_path, <<".", "p", "n", "g">>) THEN "image/png"
    ELSE ""

(***************************************************************************)
(* State                                                                   *)
(***************************************************************************)
VARIABLES
    files,     \* the tile files of the shared cache directory: key -> bytes
    dirs,      \* the directories below the cache directory
    complete,  \* keys whose file some download has written to the end and closed
    bound,     \* the ports held by a listening socket
    srv,       \* per LocalTileServer: lifecycle, self.server, self.port
    hnd,       \* per server: its (single) request handler and the request it handles
    backlog,   \* per server: accepted connections not yet handled
    last,      \* per server: the request it answered last, with the response
    issued,    \* number of requests the clients have sent
    inputs,    \* the request paths the clients use
    owner,     \* per server, the thread that owns it: "running", or "waiting"
               \* once it has called stop() and wait()
    view,      \* MapView: the coordinate conversion it made last
    prefetch,  \* the prefetch pass: its region, the keys left, the fetches submitted
    manager,   \* AreaManager with its MapBridge and the areas file on disk
    wheel      \* MapView: self.zoom and what the last wheel event did

vars == <<files, dirs, complete, bound, srv, hnd, backlog, last, issued, inputs,
          owner, view, prefetch, manager, wheel>>

\* the parts of the program the tile server threads do not touch
Components == <<view, prefetch, manager, wheel>>

(***************************************************************************)
(* The disk as os.path.exists and open see it                              *)
(***************************************************************************)
\* every directory on the disk: those of LocalDirs and the ones os.makedirs
\* has created below the cache directory
DiskDirs ==
    LocalDirs \cup
    {join(<<CACHE_DIR, d[1]>> \o [i \in 1..(Len(d) - 1) |-> str(d[i + 1])]) : d \in dirs}

\* every regular file on the disk with the bytes it holds now: the installed
\* files and the tile files, also those a download has not finished writing
DiskFiles ==
    [f \in DOMAIN LocalFiles \cup {CachePath(key) : key \in DOMAIN files} |->
        IF f \in DOMAIN LocalFiles THEN LocalFiles[f]
        ELSE files[CHOOSE key \in DOMAIN files : CachePath(key) = f]]

\* the lookup of an absolute path, component by component: acc names the
\* directory reached so far. '' and '.' stay there, '..' goes to its parent,
\* a name must be a directory unless it is the last component, and a name
\* that is missing or a file in the middle fails the lookup (ENOENT, ENOTDIR)
RECURSIVE Resolve(_, _)
Resolve(segs, acc) ==
    IF segs = <<>> THEN [kind |-> "dir", path |-> <<"/">> \o join(acc)]
    ELSE IF segs[1] = <<>> \/ segs[1] = <<".">> THEN Resolve(Tail(segs), acc)
    ELSE IF segs[1] = <<".", ".">>
         THEN Resolve(Tail(segs), IF acc = <<>> THEN acc ELSE SubSeq(acc, 1, Len(acc) - 1))
    ELSE LET p == <<"/">> \o join(Append(acc, segs[1])) IN
         IF p \in DiskDirs THEN Resolve(Tail(segs), Append(acc, segs[1]))
         ELSE IF p \in DOMAIN DiskFiles /\ Tail(segs) = <<>>
         THEN [kind |-> "file", path |-> p]
         ELSE [kind |-> "none", path |-> <<>>]

\* p names a regular file: open(p, 'rb') succeeds
IsLocalFile(p) == Resolve(split(p, "/"), <<>>).kind = "file"
\* os.path.exists(local_path): a file or a directory
os_path_exists(p) ==
    Len(p) > 0 /\ p[1] = "/" /\ Resolve(split(p, "/"), <<>>).kind # "none"

NoUp == [kind |-> "none", status |-> 0, body |-> <<>>]

\* a request as the model follows it: id numbers the requests in the order
\* they are sent, pend holds the requests that were unanswered when it was
\* sent, tries counts the upstream calls made for it, up is what the
\* upstream answered
NoReq == [id |-> 0, path |-> <<>>, pend |-> {}, tries |-> 0, up |-> NoUp]

NoResp == [req |-> NoReq, status |-> 0, ctype |-> "", body |-> <<>>,
           text |-> "", crashed |-> FALSE]

Idle == [pc |-> "idle", req |-> NoReq, tile_path |-> <<<<>>, 0, 0, 0>>]

\* os.path.exists(tile_path)
exists(key) == key \in DOMAIN files

\* the ids of the requests that have no response yet
Pending ==
    UNION {{backlog[s][i].id : i \in 1..Len(backlog[s])} : s \in Servers}
    \cup {hnd[s].req.id : s \in {t \in Servers : hnd[t].pc # "idle"}}

\* file content after writing data at offset 0 of a file holding old
Overlay(old, data) == data \o SubSeq(old, Len(data) + 1, Len(old))

\* the handler of server s ends the request r with this response
Finish(s, r, status, ctype, body, text, crashed) ==
    /\ last' = [last EXCEPT ![s] = [req |-> r, status |-> status, ctype |-> ctype,
                                    body |-> body, text |-> text, crashed |-> crashed]]
    /\ hnd' = [hnd EXCEPT ![s] = Idle]

\* MapView before any conversion
NoView == [op |-> "none", arg |-> <<0, 0>>, pixel |-> <<0, 0>>, tile |-> <<0, 0>>]

\* no prefetch pass has been asked for
NoPrefetch == [st |-> "idle", zoom |-> 0, center |-> <<0, 0>>, radius |-> 0,
               store |-> {}, square |-> {}, todo |-> {}, submitted |-> {},
               failed |-> {}]

\* None, and the falsy id values ("" and a missing id) that the code treats
\* like None
None == 0

\* the areas file before the application has written or been given one
NoFile == [kind |-> "unreadable", areas |-> <<>>]

\* AreaManager.__init__ and MapBridge.__init__: no area, no selection;
\* emitted and relayed hold the signals of the call made last, call names it,
\* calls counts the calls made; saved is the registry that save_to_file has
\* written to the file, while the file is the one it wrote
NoManager == [areas |-> <<>>, selected_area_id |-> None,
              emitted |-> <<>>, relayed |-> <<>>,
              call |-> [op |-> "none", id |-> None, ret |-> TRUE],
              calls |-> 0, file |-> NoFile,
              saved |-> [valid |-> FALSE, areas |-> <<>>]]

\* MapView.__init__ with its default initial_zoom and no sample tile in the
\* cache; no wheel event yet
NoWheel == [zoom |-> 15, test_tile_info |-> None, event |-> "none",
            old_zoom |-> 15, zoomChanged |-> <<>>, raised |-> ""]

\* no owner has stopped its server, the map view and the prefetch scheduler
\* are idle, the area manager is empty
InitOther ==
    /\ owner = [s \in Servers |-> "running"]
    /\ view = NoView
    /\ prefetch = NoPrefetch
    /\ manager = NoManager
    /\ wheel = NoWheel

\* LocalTileServer.__init__ and start(): self.server is None, self.port the
\* default; line names the statement of run() the thread executes next, sock
\* is the port of the listening socket HTTPServer() has made (0: none yet)
InitServer == [st |-> "Starting", line |-> "HTTPServer", sock |-> 0,
               server |-> FALSE, port |-> FirstPort, shut |-> FALSE,
               emitted |-> <<>>]

\* the state once every tile server thread is started, with the cache
\* directory empty. taken are the ports other programs hold and paths the
\* requests the clients send. With ran empty no thread has run yet; else
\* taken leaves one port free and every thread has been through its bind
\* loop: the server of ran has bound that port and is in serve_forever, the
\* threads of the others have found none and returned
InitTiles(taken, paths, ran) ==
    /\ files = <<>>
    /\ dirs = {}
    /\ complete = {}
    /\ LET free == CandidatePorts \ taken
           port == CHOOSE p \in free : \A q \in free : p <= q
       IN /\ bound = IF ran = {} THEN taken ELSE taken \cup {port}
          /\ srv = [s \in Servers |->
                      IF s \in ran
                      THEN [InitServer EXCEPT !.st = "Listening", !.server = TRUE,
                                              !.line = "serve_forever", !.sock = port,
                                              !.port = port, !.emitted = <<port>>]
                      ELSE IF ran # {} THEN [InitServer EXCEPT !.st = "Stopped"]
                      ELSE InitServer]
    /\ hnd = [s \in Servers |-> Idle]
    /\ backlog = [s \in Servers |-> <<>>]
    /\ last = [s \in Servers |-> NoResp]
    /\ issued = 0
    /\ inputs = paths

InitWith(taken, paths, ran) == InitTiles(taken, paths, ran) /\ InitOther

\* no candidate port is held by another program; the clients ask for one tile
Init == InitWith({}, {PathA}, {})

(***************************************************************************)
(* LocalTileServer: run, stop                                              *)
(***************************************************************************)
\* the ports of range(8080, 8100) on which HTTPServer(...) does not raise
FreePorts == {p \in CandidatePorts : p \notin bound}

\* the loop run downwards: the highest free candidate port
LastFree == CHOOSE p \in FreePorts : \A q \in FreePorts : p >= q

\* the first port of the loop that binds
FirstFree == CHOOSE p \in FreePorts : \A q \in FreePorts : p <= q

\* run that reports the default of self.port, not the port it has bound
run_emit_default(s) ==
    /\ srv[s].st = "Starting"
    /\ CASE srv[s].line = "HTTPServer" ->
              IF FreePorts # {}
              THEN /\ bound' = bound \cup {FirstFree}
                   /\ srv' = [srv EXCEPT ![s].sock = FirstFree, ![s].line = "port"]
              ELSE /\ srv' = [srv EXCEPT ![s].st = "Stopped"]
                   /\ UNCHANGED bound
         [] srv[s].line = "port" ->
              /\ srv' = [srv EXCEPT ![s].port = srv[s].sock, ![s].line = "server"]
              /\ UNCHANGED bound
         [] srv[s].line = "server" ->
              /\ srv' = [srv EXCEPT ![s].server = TRUE, ![s].line = "emit"]
              /\ UNCHANGED bound
         [] srv[s].line = "emit" ->
              /\ srv' = [srv EXCEPT ![s].emitted = Append(@, InitServer.port),
                                    ![s].line = "serve_forever"]
              /\ UNCHANGED bound
         [] srv[s].line = "serve_forever" ->
              /\ srv' = [srv EXCEPT ![s].st = "Listening"]
              /\ UNCHANGED bound
    /\ UNCHANGED <<files, dirs, complete, hnd, backlog, last, issued, inputs, owner, Components>>

\* LocalTileServer.run up to serve_forever, one statement of the thread at a
\* time, as other threads run between them.
\* HTTPServer: the loop over range(8080, 8100); HTTPServer(('localhost',
\* port), ...) binds the port and listens, or raises OSError for a port in
\* use and the loop tries the next. No port is ever given back, so that the
\* port the loop binds is the lowest one free at the moment it binds; with
\* none free run prints an error and returns.
\* port, server: self.port = port, self.server = server.
\* emit: self.server_started.emit(port).
\* serve_forever: the thread enters the loop that takes the requests.
run(s) ==
    /\ srv[s].st = "Starting"
    /\ CASE srv[s].line = "HTTPServer" ->
              IF FreePorts # {}
              THEN /\ bound' = bound \cup {FirstFree}
                   /\ srv' = [srv EXCEPT ![s].sock = FirstFree, ![s].line = "port"]
              ELSE /\ srv' = [srv EXCEPT ![s].st = "Stopped"]
                   /\ UNCHANGED bound
         [] srv[s].line = "port" ->
              /\ srv' = [srv EXCEPT ![s].port = srv[s].sock, ![s].line = "server"]
              /\ UNCHANGED bound
         [] srv[s].line = "server" ->
              /\ srv' = [srv EXCEPT ![s].server = TRUE, ![s].line = "emit"]
              /\ UNCHANGED bound
         [] srv[s].line = "emit" ->
              /\ srv' = [srv EXCEPT ![s].emitted = Append(@, srv[s].sock),
                                    ![s].line = "serve_forever"]
              /\ UNCHANGED bound
         [] srv[s].line = "serve_forever" ->
              /\ srv' = [srv EXCEPT ![s].st = "Listening"]
              /\ UNCHANGED bound
    /\ UNCHANGED <<files, dirs, complete, hnd, backlog, last, issued, inputs, owner, Components>>

\* stop that also drops the request in progress
stop_abort(s) ==
    /\ owner[s] = "running"
    /\ srv[s].st # "Stopped"
    /\ owner' = [owner EXCEPT ![s] = "waiting"]
    /\ IF srv[s].server
       THEN /\ srv' = [srv EXCEPT ![s].shut = TRUE]
            /\ hnd' = [hnd EXCEPT ![s] = Idle]
       ELSE UNCHANGED <<srv, hnd>>
    /\ UNCHANGED <<files, dirs, complete, bound, backlog, last, issued, inputs, Components>>

\* the owner of server s calls LocalTileServer.stop and then wait(), as
\* closeEvent does. With a server object in self.server, server.shutdown()
\* asks serve_forever to return, also when the thread has not entered it
\* yet; while self.server is None nothing is shut down, and the owner goes
\* on to wait(). (On a thread whose run has returned both calls return at
\* once and change nothing.)
stop(s) ==
    /\ owner[s] = "running"
    /\ srv[s].st # "Stopped"
    /\ owner' = [owner EXCEPT ![s] = "waiting"]
    /\ IF srv[s].server
       THEN srv' = [srv EXCEPT ![s].shut = TRUE]
       ELSE UNCHANGED srv
    /\ UNCHANGED <<files, dirs, complete, bound, hnd, backlog, last, issued, inputs, Components>>

\* serve_forever that returns in the middle of a request
serve_exit_now(s) ==
    /\ srv[s].st = "Listening"
    /\ srv[s].shut
    /\ srv' = [srv EXCEPT ![s].st = "Stopped"]
    /\ UNCHANGED <<files, dirs, complete, bound, hnd, backlog, last, issued, inputs, owner, Components>>

\* serve_forever returns once the request in progress is finished; run ends
serve_exit(s) ==
    /\ srv[s].st = "Listening"
    /\ srv[s].shut
    /\ hnd[s].pc = "idle"
    /\ srv' = [srv EXCEPT ![s].st = "Stopped"]
    /\ UNCHANGED <<files, dirs, complete, bound, hnd, backlog, last, issued, inputs, owner, Components>>

(***************************************************************************)
(* Clients                                                                 *)
(***************************************************************************)
\* a client connects to the listening socket of server s and sends GET
\* path: the socket listens from the moment HTTPServer() has made it
Request(s, path) ==
    /\ srv[s].sock # 0
    /\ issued < MaxReq
    /\ issued' = issued + 1
    /\ backlog' = [backlog EXCEPT ![s] = Append(@,
          [id |-> issued + 1, path |-> path, pend |-> Pending,
           tries |-> 0, up |-> NoUp])]
    /\ UNCHANGED <<files, dirs, complete, bound, srv, hnd, last, inputs, owner, Components>>

(***************************************************************************)
(* TileRequestHandler.do_GET and TileDownloader                            *)
(***************************************************************************)
\* the directory levels os.makedirs(tile_dir, exist_ok=True) has to create
DirLevels(path) ==
    LET d == TileDir(path) IN <<<<d[1]>>, <<d[1], d[2]>>, d>>

\* the number of leading levels of tile_dir that exist already
RECURSIVE ExistingLevels(_, _)
ExistingLevels(levels, n) ==
    IF n < Len(levels) /\ levels[n + 1] \in dirs
    THEN ExistingLevels(levels, n + 1) ELSE n

\* get_tile without the cache lookup: every request downloads the tile
get_tile_always_download(s, r, key) ==
    hnd' = [hnd EXCEPT ![s] = [pc |-> "urlopen", tile_path |-> key,
                               req |-> [r EXCEPT !.tries = @ + 1]]]

\* get_tile: the cache lookup; a hit returns tile_path, a miss goes on to
\* download_tile, which sends the upstream request
get_tile(s, r, key) ==
    IF exists(key)
    THEN hnd' = [hnd EXCEPT ![s] = [pc |-> "send", req |-> r, tile_path |-> key]]
    ELSE hnd' = [hnd EXCEPT ![s] = [pc |-> "urlopen", tile_path |-> key,
                                    req |-> [r EXCEPT !.tries = @ + 1]]]

\* the tile branch of do_GET up to the cache lookup of get_tile
TileBranch(s, r) ==
    LET path == r.path
        levels == DirLevels(path)
        key == get_tile_path(path)
    IN
    IF ~TileParseOk(path)
    THEN \* except (ValueError, IndexError): 400
         /\ Finish(s, r, 400, "", <<>>, "Invalid tile request", FALSE)
         /\ UNCHANGED dirs
    ELSE IF ~IsTopo(Parts(path)[3])
    THEN \* unknown tile source: 404
         /\ Finish(s, r, 404, "", <<>>, "", FALSE)
         /\ UNCHANGED dirs
    ELSE \* get_tile -> get_tile_path: os.makedirs creates n levels, or raises
         \E n \in ExistingLevels(levels, 0)..Len(levels) :
            /\ dirs' = dirs \cup {levels[i] : i \in 1..n}
            /\ IF n < Len(levels)
               THEN \* OSError: get_tile_path returns None, get_tile None: 404
                    Finish(s, r, 404, "", <<>>, "", FALSE)
               ELSE get_tile(s, r, key) /\ UNCHANGED last

\* the resource branch of do_GET
ResourceBranch(s, r) ==
    LET resource_path == remove(r.path, <<"/", "r", "e", "s", "o", "u", "r", "c", "e", "s", "/">>)
        local_path == os_path_join(RESOURCE_DIR, resource_path)
    IN
    IF os_path_exists(local_path)
    THEN IF IsLocalFile(local_path)
         THEN Finish(s, r, 200, ContentType(local_path),
                     DiskFiles[Resolve(split(local_path, "/"), <<>>).path], "", FALSE)
         ELSE \* open() of a directory raises after the status line was sent
              Finish(s, r, 200, ContentType(local_path), <<>>, "", TRUE)
    ELSE Finish(s, r, 404, "", <<>>, "Not found", FALSE)

\* the server takes the next connection and runs do_GET up to its first
\* blocking operation
do_GET(s) ==
    /\ srv[s].st = "Listening"
    /\ ~srv[s].shut
    /\ hnd[s].pc = "idle"
    /\ backlog[s] # <<>>
    /\ backlog' = [backlog EXCEPT ![s] = Tail(@)]
    /\ LET r == Head(backlog[s])
       IN IF IsTileRequest(r.path)
          THEN TileBranch(s, r)
          ELSE IF contains(r.path, <<"/", "r", "e", "s", "o", "u", "r", "c", "e", "s", "/">>)
          THEN ResourceBranch(s, r) /\ UNCHANGED dirs
          ELSE /\ Finish(s, r, 404, "", <<>>, "Not found", FALSE)
               /\ UNCHANGED dirs
    /\ UNCHANGED <<files, complete, bound, srv, issued, inputs, owner, Components>>

\* download_tile: urlopen(req) and response.read() end
urlopen(s) ==
    /\ hnd[s].pc = "urlopen"
    /\ \E up \in Upstream :
         LET r == [hnd[s].req EXCEPT !.up = up]
         IN IF urlopen_raises(up)
            THEN \* except URLError: return False; get_tile returns None: 404
                 Finish(s, r, 404, "", <<>>, "", FALSE)
            ELSE IF up.kind = "reset"
            THEN \* response.read() raises, nothing catches it: no response
                 Finish(s, r, 0, "", <<>>, "", TRUE)
            ELSE /\ hnd' = [hnd EXCEPT ![s].pc = "open", ![s].req = r]
                 /\ UNCHANGED last
    /\ UNCHANGED <<files, dirs, complete, bound, srv, backlog, issued, inputs, owner, Components>>

\* download_tile: open(tile_path, 'wb') creates or truncates the file
open_wb(s) ==
    /\ hnd[s].pc = "open"
    /\ LET r == hnd[s].req
           key == hnd[s].tile_path
       IN \E ok \in BOOLEAN :
            IF ok
            THEN /\ files' = (key :> <<>>) @@ files
                 /\ hnd' = [hnd EXCEPT ![s].pc = "write"]
                 /\ UNCHANGED last
            ELSE \* OSError is not a URLError: no response
                 /\ Finish(s, r, 0, "", <<>>, "", TRUE)
                 /\ UNCHANGED files
    /\ UNCHANGED <<dirs, complete, bound, srv, backlog, issued, inputs, owner, Components>>

\* download_tile with a cleanup: a write that raises removes the tile file
write_remove_on_error(s) ==
    /\ hnd[s].pc = "write"
    /\ LET r == hnd[s].req
           key == hnd[s].tile_path
           tile_data == r.up.body
       IN \E n \in 0..Len(tile_data) :
            IF n = Len(tile_data)
            THEN /\ files' = [files EXCEPT ![key] = Overlay(@, tile_data)]
                 /\ complete' = complete \cup {key}
                 /\ hnd' = [hnd EXCEPT ![s].pc = "send"]
                 /\ UNCHANGED last
            ELSE /\ files' = [k \in DOMAIN files \ {key} |-> files[k]]
                 /\ Finish(s, r, 0, "", <<>>, "", TRUE)
                 /\ UNCHANGED complete
    /\ UNCHANGED <<dirs, bound, srv, backlog, issued, inputs, owner, Components>>

\* download_tile: f.write(tile_data) and the close of the file; n bytes
\* reach the file, and the write raises when n is not the whole body
write(s) ==
    /\ hnd[s].pc = "write"
    /\ LET r == hnd[s].req
           key == hnd[s].tile_path
           tile_data == r.up.body
       IN \E n \in 0..Len(tile_data) :
            /\ files' = [files EXCEPT ![key] = Overlay(@, SubSeq(tile_data, 1, n))]
            /\ IF n = Len(tile_data)
               THEN /\ complete' = complete \cup {key}
                    /\ hnd' = [hnd EXCEPT ![s].pc = "send"]
                    /\ UNCHANGED last
               ELSE /\ Finish(s, r, 0, "", <<>>, "", TRUE)
                    /\ UNCHANGED complete
    /\ UNCHANGED <<dirs, bound, srv, backlog, issued, inputs, owner, Components>>

\* do_GET: tile_path exists: 200, image/png and the bytes of the file
send(s) ==
    /\ hnd[s].pc = "send"
    /\ LET r == hnd[s].req
           key == hnd[s].tile_path
       IN IF exists(key)
          THEN Finish(s, r, 200, "image/png", files[key], "", FALSE)
          ELSE Finish(s, r, 404, "", <<>>, "", FALSE)
    /\ UNCHANGED <<files, dirs, complete, bound, srv, backlog, issued, inputs, owner, Components>>

Next ==
    \/ \E s \in Servers : run(s)
    \/ \E s \in Servers : stop(s)
    \/ \E s \in Servers : serve_exit(s)
    \/ \E s \in Servers, path \in inputs : Request(s, path)
    \/ \E s \in Servers : do_GET(s)
    \/ \E s \in Servers : urlopen(s)
    \/ \E s \in Servers : open_wb(s)
    \/ \E s \in Servers : write(s)
    \/ \E s \in Servers : send(s)

Spec == Init /\ [][Next]_vars

\* the steps once every thread has left its bind loop
NextServe ==
    \/ \E s \in Servers : stop(s)
    \/ \E s \in Servers : serve_exit(s)
    \/ \E s \in Servers, path \in inputs : Request(s, path)
    \/ \E s \in Servers : do_GET(s)
    \/ \E s \in Servers : urlopen(s)
    \/ \E s \in Servers : open_wb(s)
    \/ \E s \in Servers : write(s)
    \/ \E s \in Servers : send(s)

\* other programs hold every candidate port but the last, and server 1 has
\* bound that one; the clients send tile requests of every shape and
\* resource requests
InitPaths == InitWith(CandidatePorts \ {PortLimit - 1}, PathInputs, {1})

SpecPaths == InitPaths /\ [][NextServe]_vars

\* server 1 has bound the only free port; the clients send resource
\* requests of every shape, a tile request and unmatched paths
InitResources == InitWith(CandidatePorts \ {PortLimit - 1}, ResourceInputs, {1})

SpecResources == InitResources /\ [][NextServe]_vars

\* server 1 has bound the only free port; the clients ask for tiles with
\* the source and the integers written in several ways
InitCase == InitWith(CandidatePorts \ {PortLimit - 1}, CaseInputs, {1})

SpecCase == InitCase /\ [][NextServe]_vars

\* the servers are stopped at any time, also before their threads have
\* bound a port; other programs hold all the candidate ports or all but one
InitClose ==
    \E taken \in {CandidatePorts \ {PortLimit - 1}, CandidatePorts} :
        InitWith(taken, {PathA}, {})

SpecClose == InitClose /\ [][Next]_vars

\* the clients ask for a resource file, a request that do_GET answers
\* without a download. The candidate ports other programs hold when the tile
\* servers start: all but the second and the fourth, all but the last, all
InitPorts ==
    \E taken \in {CandidatePorts \ {FirstPort + 1, FirstPort + 3},
                  CandidatePorts \ {PortLimit - 1}, CandidatePorts} :
        InitWith(taken, {PathRes}, {})

\* the steps of the servers with such clients
NextPorts ==
    \/ \E s \in Servers : run(s)
    \/ \E s \in Servers : stop(s)
    \/ \E s \in Servers : serve_exit(s)
    \/ \E s \in Servers, path \in inputs : Request(s, path)
    \/ \E s \in Servers : do_GET(s)

SpecPorts == InitPorts /\ [][NextPorts]_vars


(***************************************************************************)
(* MapView: pixel and tile coordinates                                     *)
(***************************************************************************)
\* self.tile_size
TILE_SIZE == 256

\* the tile indices and the pixel coordinates the conversions are tried on:
\* the first, the second and the last pixel of every tile
MaxTile == 2
Tiles == (0 - MaxTile)..MaxTile
Pixels == {t * TILE_SIZE + o : t \in Tiles, o \in {0, 1, TILE_SIZE - 1}}

\* int(a / b) for integers a and b > 0: the quotient rounded towards zero
IntQuotient(a, b) == IF a >= 0 THEN a \div b ELSE 0 - ((0 - a) \div b)

\* MapView.world_pixel_to_tile
world_pixel_to_tile(pixel) ==
    <<IntQuotient(pixel[1], TILE_SIZE), IntQuotient(pixel[2], TILE_SIZE)>>

\* MapView.tile_to_world_pixel
tile_to_world_pixel(tile) == <<tile[1] * TILE_SIZE, tile[2] * TILE_SIZE>>

\* the map view converts the pixel it holds to a tile
WorldPixelToTile ==
    /\ view' = [op |-> "world_pixel_to_tile", arg |-> view.pixel,
                pixel |-> view.pixel, tile |-> world_pixel_to_tile(view.pixel)]
    /\ UNCHANGED <<files, dirs, complete, bound, srv, hnd, backlog, last, issued,
                   inputs, owner, prefetch, manager, wheel>>

\* the map view converts the tile it holds to a pixel
TileToWorldPixel ==
    /\ view' = [op |-> "tile_to_world_pixel", arg |-> view.tile,
                tile |-> view.tile, pixel |-> tile_to_world_pixel(view.tile)]
    /\ UNCHANGED <<files, dirs, complete, bound, srv, hnd, backlog, last, issued,
                   inputs, owner, prefetch, manager, wheel>>

\* a map view that holds any pixel and any tile; the tile servers are not
\* looked at
InitMath ==
    /\ InitTiles({}, {}, {})
    /\ owner = [s \in Servers |-> "running"]
    /\ prefetch = NoPrefetch
    /\ manager = NoManager
    /\ wheel = NoWheel
    /\ view \in {[op |-> "none", arg |-> <<0, 0>>, pixel |-> p, tile |-> t] :
                   p \in Pixels \X Pixels, t \in Tiles \X Tiles}

NextMath == WorldPixelToTile \/ TileToWorldPixel

SpecMath == InitMath /\ [][NextMath]_vars


(***************************************************************************)
(* PrefetchScheduler, as section 4.4 of the specification describes it     *)
(***************************************************************************)
\* the largest radius and the zoom levels a prefetch pass is tried with
MaxRadius == 1

RECURSIVE Pow2(_)
Pow2(n) == IF n = 0 THEN 1 ELSE 2 * Pow2(n - 1)

\* the tile indices of a zoom level: 0 .. 2^zoom - 1
ValidRange(zoom) == 0..(Pow2(zoom) - 1)

\* the keys <<zoom, x, y>> of the square of radius r around the centre tile
Square(zoom, center, r) ==
    {<<zoom, x, y>> : x \in (center[1] - r)..(center[1] + r),
                      y \in (center[2] - r)..(center[2] + r)}

\* the keys of a set with both indices in the valid range of their zoom
Clip(keys) ==
    {k \in keys : k[2] \in ValidRange(k[1]) /\ k[3] \in ValidRange(k[1])}

\* the fetches submitted that have not ended
Fetching == (prefetch.submitted \ prefetch.failed) \ prefetch.store

PrefetchFrame ==
    UNCHANGED <<files, dirs, complete, bound, srv, hnd, backlog, last, issued,
                inputs, owner, view, manager, wheel>>

\* prefetchRegion at one zoom: enumerate the square, clip it
prefetchRegion(zoom, center, r) ==
    /\ prefetch.st = "idle"
    /\ prefetch' = [prefetch EXCEPT !.st = "running", !.zoom = zoom,
                                    !.center = center, !.radius = r,
                                    !.square = Square(zoom, center, r),
                                    !.todo = Clip(Square(zoom, center, r))]
    /\ PrefetchFrame

\* the pass takes a key and submits a fetch for it whether or not the store
\* holds it
PrefetchSubmit_always(key) ==
    /\ prefetch.st = "running"
    /\ key \in prefetch.todo
    /\ prefetch' = [prefetch EXCEPT !.todo = @ \ {key},
                                    !.submitted = @ \cup {key}]
    /\ PrefetchFrame

\* the pass takes a key, checks TileStore.exists and submits a fetch for it
\* if it is absent, without waiting for the fetch
PrefetchSubmit(key) ==
    /\ prefetch.st = "running"
    /\ key \in prefetch.todo
    /\ prefetch' = [prefetch EXCEPT !.todo = @ \ {key},
                                    !.submitted = IF key \in prefetch.store
                                                  THEN @ ELSE @ \cup {key}]
    /\ PrefetchFrame

\* every key has been looked at: prefetchRegion returns
PrefetchReturn ==
    /\ prefetch.st = "running"
    /\ prefetch.todo = {}
    /\ prefetch' = [prefetch EXCEPT !.st = "done"]
    /\ PrefetchFrame

\* a submitted fetch ends: the tile is stored, or the fetch has failed and
\* its error is swallowed
PrefetchFetchEnds(key, ok) ==
    /\ key \in Fetching
    /\ prefetch' = IF ok THEN [prefetch EXCEPT !.store = @ \cup {key}]
                         ELSE [prefetch EXCEPT !.failed = @ \cup {key}]
    /\ PrefetchFrame

InitPrefetch ==
    /\ InitTiles({}, {}, {})
    /\ owner = [s \in Servers |-> "running"]
    /\ view = NoView
    /\ manager = NoManager
    /\ wheel = NoWheel
    \* the keys that may be in the store before the pass
    /\ \E present \in SUBSET Clip(Square(1, <<0, 0>>, 1)) :
         prefetch = [NoPrefetch EXCEPT !.store = present]

NextPrefetch ==
    \/ \E zoom \in {0, 1}, r \in 0..MaxRadius :
         \E center \in ValidRange(zoom) \X ValidRange(zoom) :
            prefetchRegion(zoom, center, r)
    \/ \E key \in prefetch.todo : PrefetchSubmit(key)
    \/ PrefetchReturn
    \/ \E key \in prefetch.submitted, ok \in BOOLEAN : PrefetchFetchEnds(key, ok)

SpecPrefetch == InitPrefetch /\ [][NextPrefetch]_vars


(***************************************************************************)
(* MissionArea, AreaManager, MapBridge                                     *)
(***************************************************************************)
\* the number of area ids in use; uuid4 strings are modelled as 1..MaxAreas
MaxAreas == 2
\* the number of calls the callers make to the area manager
MaxCalls == 4
AreaIds == 1..MaxAreas

\* the bounds MissionArea.__init__ gives an area created without bounds
DEFAULT_BOUNDS == <<<<0, 0>>, <<0, 0>>>>
\* a rectangle drawn on the map; the falsy bounds, None and [], are <<>>
BoundsA == <<<<1, 2>>, <<3, 4>>>>

\* a name; the falsy names, None and "", are ""
NameA == "north"

\* a metadata dict, as the set of its items <<key, value>>; the falsy ones,
\* None and {}, are {}. A key is <<type of the key, str(key)>>: the key
\* 'terrain' is <<"str", "terrain">>, the key 1 is <<"int", "1">> and the
\* key '1' is <<"str", "1">>
MetaA == {<<<<"str", "terrain">>, "rock">>}

\* MissionArea.__init__; uuid is what str(uuid.uuid4()) returns when called
MissionArea(id, bounds, name, uuid) ==
    LET self_id == IF id # None THEN id ELSE uuid
    IN [id |-> self_id,
        bounds |-> IF bounds # <<>> THEN bounds ELSE DEFAULT_BOUNDS,
        name |-> IF name # "" THEN name ELSE "Area " \o ToString(self_id),
        metadata |-> {}]

\* MissionArea.set_bounds
set_bounds(area, sw_lat, sw_lng, ne_lat, ne_lng) ==
    [area EXCEPT !.bounds = <<<<sw_lat, sw_lng>>, <<ne_lat, ne_lng>>>>]

\* MissionArea.set_bounds_from_points: the rectangle around two points or
\* more; with fewer the area stays as it is and the call returns False
set_bounds_from_points(area, points) ==
    IF Len(points) < 2 THEN area
    ELSE LET lats == {points[i][1] : i \in 1..Len(points)}
             lngs == {points[i][2] : i \in 1..Len(points)}
             min(S) == CHOOSE v \in S : \A w \in S : v <= w
             max(S) == CHOOSE v \in S : \A w \in S : v >= w
         IN [area EXCEPT !.bounds = <<<<min(lats), min(lngs)>>,
                                      <<max(lats), max(lngs)>>>>]

\* MissionArea.to_dict; object says that the JSON value is an object
to_dict(area) ==
    [object |-> TRUE, id |-> area.id, bounds |-> area.bounds,
     name |-> area.name, metadata |-> area.metadata]

\* MissionArea.from_dict; a key the entry lacks reads as None (id, bounds,
\* name) or {} (metadata)
from_dict(data, uuid) ==
    [MissionArea(data.id, data.bounds, data.name, uuid)
        EXCEPT !.metadata = data.metadata]

\* the ids self.areas holds
KeySet(m) == {m.areas[i].id : i \in 1..Len(m.areas)}

\* self.areas.get(area_id) of an id in the registry
get_area(m, area_id) ==
    m.areas[CHOOSE i \in 1..Len(m.areas) : m.areas[i].id = area_id]

\* self.areas[area.id] = area: a key the dict holds keeps its position
Put(areas, area) ==
    IF \E i \in 1..Len(areas) : areas[i].id = area.id
    THEN [i \in 1..Len(areas) |-> IF areas[i].id = area.id THEN area ELSE areas[i]]
    ELSE Append(areas, area)

\* the slots of MapBridge, run inside emit: what the bridge relays to
\* JavaScript for a signal of the area manager
Relay(m, signal, area_id) ==
    CASE signal = "area_added" ->
           IF area_id \in KeySet(m)
           THEN <<<<"areaAdded", area_id, get_area(m, area_id).bounds>>>>
           ELSE <<>>
      [] signal = "area_modified" ->
           IF area_id \in KeySet(m)
           THEN <<<<"areaModified", area_id, get_area(m, area_id).bounds>>>>
           ELSE <<>>
      [] signal = "area_removed" -> <<<<"areaRemoved", area_id, <<>>>>>>
      [] signal = "area_selected" -> <<<<"areaSelected", area_id, <<>>>>>>

\* signal.emit(area_id): the connected slots run before emit returns
emit(m, signal, area_id) ==
    [m EXCEPT !.emitted = Append(@, <<signal, area_id>>),
              !.relayed = @ \o Relay(m, signal, area_id)]

\* the method op called with area_id returns ret
Return(m, op, area_id, ret) ==
    [m EXCEPT !.call = [op |-> op, id |-> area_id, ret |-> ret]]

\* add_area that emits area_added before it stores the area
add_area_emit_first(m, area) ==
    Return([emit(m, "area_added", area.id) EXCEPT !.areas = Put(@, area)],
           "add_area", area.id, area.id)

\* AreaManager.add_area of an area object; the call returns area.id
add_area(m, area) ==
    Return(emit([m EXCEPT !.areas = Put(@, area)], "area_added", area.id),
           "add_area", area.id, area.id)

\* AreaManager.update_area
update_area(m, area_id, bounds, name, metadata) ==
    IF area_id \notin KeySet(m)
    THEN Return(m, "update_area", area_id, FALSE)
    ELSE LET area == get_area(m, area_id)
             updated == [area EXCEPT
                 !.bounds = IF bounds # <<>> THEN bounds ELSE @,
                 !.name = IF name # "" THEN name ELSE @,
                 \* area.metadata.update(metadata)
                 !.metadata = IF metadata # {}
                              THEN {p \in @ : \A q \in metadata : q[1] # p[1]}
                                   \cup metadata
                              ELSE @]
         IN Return(emit([m EXCEPT !.areas = Put(@, updated)],
                        "area_modified", area_id),
                   "update_area", area_id, TRUE)

\* remove_area that leaves the selection alone
remove_area_keep_selection(m, area_id) ==
    IF area_id \in KeySet(m)
    THEN Return(emit([m EXCEPT !.areas = LET Keep(a) == a.id # area_id
                                         IN SelectSeq(@, Keep)],
                     "area_removed", area_id),
                "remove_area", area_id, TRUE)
    ELSE Return(m, "remove_area", area_id, FALSE)

\* AreaManager.remove_area
remove_area(m, area_id) ==
    IF area_id \in KeySet(m)
    THEN Return(emit([m EXCEPT !.areas = LET Keep(a) == a.id # area_id
                                         IN SelectSeq(@, Keep),
                               !.selected_area_id =
                                   IF @ = area_id THEN None ELSE @],
                     "area_removed", area_id),
                "remove_area", area_id, TRUE)
    ELSE Return(m, "remove_area", area_id, FALSE)

\* select_area without the test of the registry
select_area_unchecked(m, area_id) ==
    Return(emit([m EXCEPT !.selected_area_id = area_id],
                "area_selected", area_id),
           "select_area", area_id, TRUE)

\* AreaManager.select_area
select_area(m, area_id) ==
    IF area_id \in KeySet(m) \/ area_id = None
    THEN Return(emit([m EXCEPT !.selected_area_id = area_id],
                     "area_selected", area_id),
                "select_area", area_id, TRUE)
    ELSE Return(m, "select_area", area_id, FALSE)

\* the loop of clear_all_areas over the ids it has listed
RECURSIVE RemoveEach(_, _)
RemoveEach(m, area_ids) ==
    IF area_ids = <<>> THEN m
    ELSE RemoveEach(remove_area(m, Head(area_ids)), Tail(area_ids))

\* AreaManager.clear_all_areas; it has no return statement: the call
\* returns None
clear_all_areas(m) ==
    LET area_ids == [i \in 1..Len(m.areas) |-> m.areas[i].id]
    IN Return(RemoveEach(m, area_ids), "clear_all_areas", None, None)

\* AreaManager.save_to_file: open(filename, 'w') fails, or the write fails
\* and leaves a truncated file, or the file holds the dump. json.dump writes
\* the key of a dict as a JSON string: the int key 1 is written as "1", which
\* json.load reads as the key '1'. The metadata of the callers hold no two
\* keys of one text with different values
save_to_file(m, outcome) ==
    CASE outcome = "open fails" -> Return(m, "save_to_file", None, FALSE)
      [] outcome = "write fails" ->
           Return([m EXCEPT !.file = [kind |-> "invalid", areas |-> <<>>],
                            !.saved = [valid |-> FALSE, areas |-> <<>>]],
                  "save_to_file", None, FALSE)
      [] outcome = "written" ->
           Return([m EXCEPT !.file = [kind |-> "object",
                                      areas |-> [i \in 1..Len(m.areas) |->
                                         [to_dict(m.areas[i]) EXCEPT !.metadata =
                                            {<<<<"str", p[1][2]>>, p[2]>> : p \in @}]]],
                            !.saved = [valid |-> TRUE, areas |-> m.areas]],
                  "save_to_file", None, TRUE)

\* the loop of load_from_file over data.get("areas", []); an entry that is
\* not an object makes from_dict raise, which ends the loop
RECURSIVE AddEach(_, _, _)
AddEach(m, entries, uuids) ==
    IF entries = <<>> THEN Return(m, "load_from_file", None, TRUE)
    ELSE IF ~Head(entries).object THEN Return(m, "load_from_file", None, FALSE)
    ELSE IF Head(entries).id = None
    THEN \* MissionArea.__init__ draws a new uuid4 for this entry
         AddEach(add_area(m, from_dict(Head(entries), Head(uuids))),
                 Tail(entries), Tail(uuids))
    ELSE AddEach(add_area(m, from_dict(Head(entries), None)), Tail(entries), uuids)

\* AreaManager.load_from_file
load_from_file(m, uuids) ==
    IF m.file.kind \in {"unreadable", "invalid"}
    THEN \* open or json.load raises
         Return(m, "load_from_file", None, FALSE)
    ELSE IF m.file.kind = "array"
    THEN \* data.get raises, after clear_all_areas
         Return(clear_all_areas(m), "load_from_file", None, FALSE)
    ELSE AddEach(clear_all_areas(m), m.file.areas, uuids)

\* a caller enters a method of the area manager: the signals of the call
\* before are forgotten
Begin(m) == [m EXCEPT !.emitted = <<>>, !.relayed = <<>>, !.calls = @ + 1]

AreaFrame ==
    /\ manager.calls < MaxCalls
    /\ UNCHANGED <<files, dirs, complete, bound, srv, hnd, backlog, last, issued,
                   inputs, owner, view, prefetch, wheel>>

\* MapBridge.addArea, MapWidget: add_area(bounds=bounds)
AddArea(bounds, uuid) ==
    /\ uuid \notin KeySet(manager)
    /\ manager' = add_area(Begin(manager), MissionArea(None, bounds, "", uuid))
    /\ AreaFrame

\* a caller that holds an area of the registry (get_area, get_all_areas)
\* calls its set_bounds: the registry holds the new bounds and no signal is
\* emitted; the call returns None
SetBounds(area_id, b) ==
    /\ area_id \in KeySet(manager)
    /\ LET m == Begin(manager)
       IN manager' = Return([m EXCEPT !.areas =
                                Put(@, set_bounds(get_area(m, area_id),
                                                  b[1], b[2], b[3], b[4]))],
                            "set_bounds", area_id, None)
    /\ AreaFrame

\* the same with set_bounds_from_points, which returns whether it has set
\* the bounds
SetBoundsFromPoints(area_id, points) ==
    /\ area_id \in KeySet(manager)
    /\ LET m == Begin(manager)
       IN manager' = Return([m EXCEPT !.areas =
                                Put(@, set_bounds_from_points(get_area(m, area_id),
                                                              points))],
                            "set_bounds_from_points", area_id, Len(points) >= 2)
    /\ AreaFrame

\* update_area called with the arguments args
UpdateArea(area_id, args) ==
    /\ manager' = update_area(Begin(manager), area_id, args[1], args[2], args[3])
    /\ AreaFrame

RemoveArea(area_id) ==
    /\ manager' = remove_area(Begin(manager), area_id)
    /\ AreaFrame

SelectArea(area_id) ==
    /\ manager' = select_area(Begin(manager), area_id)
    /\ AreaFrame

ClearAllAreas ==
    /\ manager' = clear_all_areas(Begin(manager))
    /\ AreaFrame

SaveToFile(outcome) ==
    /\ manager' = save_to_file(Begin(manager), outcome)
    /\ AreaFrame

\* load_from_file; uuids are the ids uuid4 gives to the entries without id,
\* in their order: one for each such entry, all different, none used in the
\* file
LoadFromFile(uuids) ==
    /\ LET areas == manager.file.areas
           file_ids == {areas[i].id : i \in 1..Len(areas)}
           no_id == {i \in 1..Len(areas) : areas[i].object /\ areas[i].id = None}
       IN /\ Len(uuids) = Cardinality(no_id)
          /\ \A i \in 1..Len(uuids) : uuids[i] \notin file_ids
          /\ \A i, j \in 1..Len(uuids) : uuids[i] = uuids[j] => i = j
    /\ manager' = load_from_file(Begin(manager), uuids)
    /\ AreaFrame

\* the files the user may choose in the load dialog: none, one that is not
\* JSON, a JSON array, no areas, an entry without id and name, a malformed
\* entry after a good one, two entries with one id, two entries without id
AreaFiles ==
    {NoFile,
     [kind |-> "invalid", areas |-> <<>>],
     [kind |-> "array", areas |-> <<>>],
     [kind |-> "object", areas |-> <<>>],
     [kind |-> "object", areas |->
        <<[object |-> TRUE, id |-> None, bounds |-> BoundsA, name |-> "",
           metadata |-> {}]>>],
     [kind |-> "object", areas |->
        <<[object |-> TRUE, id |-> 1, bounds |-> BoundsA, name |-> NameA,
           metadata |-> MetaA],
          [object |-> FALSE, id |-> None, bounds |-> <<>>, name |-> "",
           metadata |-> {}]>>],
     [kind |-> "object", areas |->
        <<[object |-> TRUE, id |-> 1, bounds |-> BoundsA, name |-> NameA,
           metadata |-> {}],
          [object |-> TRUE, id |-> 1, bounds |-> DEFAULT_BOUNDS, name |-> "",
           metadata |-> MetaA]>>],
     [kind |-> "object", areas |->
        <<[object |-> TRUE, id |-> None, bounds |-> BoundsA, name |-> "",
           metadata |-> {}],
          [object |-> TRUE, id |-> None, bounds |-> BoundsA, name |-> NameA,
           metadata |-> {}]>>]}

\* a new area manager, and the areas file the user has
InitAreas ==
    /\ InitTiles({}, {}, {})
    /\ owner = [s \in Servers |-> "running"]
    /\ view = NoView
    /\ prefetch = NoPrefetch
    /\ wheel = NoWheel
    /\ \E file \in AreaFiles : manager = [NoManager EXCEPT !.file = file]

NextAreas ==
    \/ \E bounds \in {<<>>, BoundsA}, uuid \in AreaIds : AddArea(bounds, uuid)
    \* update_area with nothing, with bounds only (MapBridge.updateArea), with
    \* bounds, name and metadata, with the metadata {1: 'a'}
    \/ \E area_id \in AreaIds,
          args \in {<<<<>>, "", {}>>, <<BoundsA, "", {}>>, <<BoundsA, NameA, MetaA>>,
                    <<<<>>, "", {<<<<"int", "1">>, "a">>}>>} :
            UpdateArea(area_id, args)
    \/ \E area_id \in AreaIds : SetBounds(area_id, <<1, 2, 3, 4>>)
    \* no point, one point, two corners given from north-west to south-east
    \/ \E area_id \in AreaIds,
          points \in {<<>>, <<<<3, 2>>>>, <<<<3, 2>>, <<1, 4>>>>} :
            SetBoundsFromPoints(area_id, points)
    \/ \E area_id \in AreaIds : RemoveArea(area_id)
    \/ \E area_id \in AreaIds \cup {None} : SelectArea(area_id)
    \/ ClearAllAreas
    \/ \E outcome \in {"open fails", "write fails", "written"} : SaveToFile(outcome)
    \* uuid4 is called once for each entry without id
    \/ \E uuids \in UNION {[1..n -> AreaIds] : n \in 0..MaxAreas} : LoadFromFile(uuids)

SpecAreas == InitAreas /\ [][NextAreas]_vars


(***************************************************************************)
(* MapView: the zoom level and wheelEvent                                  *)
(***************************************************************************)
MIN_ZOOM == 1
MAX_ZOOM == 18
\* the zoom levels find_any_tile looks at for a sample tile: range(10, 19)
SampleZooms == 10..MAX_ZOOM

\* find_any_tile: found is the lowest zoom level of range(10, 19) at which
\* the cache directory holds a sample tile now, None if it holds none; the
\* attribute test_tile_info is set when a sample is found and is never
\* taken away
find_any_tile(w, found) ==
    IF found # None THEN [w EXCEPT !.test_tile_info = found] ELSE w

\* init_map: the part that changes self.zoom
init_map(w) ==
    IF w.test_tile_info # None THEN [w EXCEPT !.zoom = w.test_tile_info] ELSE w

\* MapView.__init__: find_any_tile has found a sample tile at zoom level
\* sample, or none (None); then init_map
MapView(initial_zoom, sample) ==
    init_map(find_any_tile([zoom |-> initial_zoom, test_tile_info |-> None,
                            event |-> "none", old_zoom |-> initial_zoom,
                            zoomChanged |-> <<>>, raised |-> ""], sample))

\* MapView.wheelEvent: the zoom level is stepped, and if it was, the map is
\* initialised again and zoomChanged is emitted with self.zoom. In between
\* the scene position of the cursor, taken before the step, is converted
\* with the level after the step: cursor says where that position lies on
\* the map of that level. "far": so far off that math.sinh overflows in
\* world_pixel_to_geo, before init_map; "south": at latitude -90 degrees, so
\* that math.log raises in geo_to_world_pixel, after init_map; "map": on it.
\* An exception ends the handler where it is raised.
wheelEvent(w, delta, cursor) ==
    LET zoom_in == delta > 0
        old_zoom == w.zoom
        stepped == IF zoom_in /\ w.zoom < MAX_ZOOM THEN w.zoom + 1
                   ELSE IF ~zoom_in /\ w.zoom > MIN_ZOOM THEN w.zoom - 1
                   ELSE w.zoom
        seen == [w EXCEPT !.event = IF delta > 0 THEN "in"
                                    ELSE IF delta = 0 THEN "zero" ELSE "out",
                          !.old_zoom = old_zoom,
                          !.zoom = stepped, !.zoomChanged = <<>>, !.raised = ""]
    IN IF old_zoom = stepped THEN seen
       ELSE IF cursor = "far" THEN [seen EXCEPT !.raised = "OverflowError"]
       ELSE LET reset == init_map(seen)
            IN IF cursor = "south" THEN [reset EXCEPT !.raised = "ValueError"]
               ELSE [reset EXCEPT !.zoomChanged = <<reset.zoom>>]

\* the user turns the mouse wheel over the map
WheelEvent(delta, cursor) ==
    /\ wheel' = wheelEvent(wheel, delta, cursor)
    /\ UNCHANGED <<files, dirs, complete, bound, srv, hnd, backlog, last, issued,
                   inputs, owner, view, prefetch, manager>>

\* find_any_tile is called on the view, with the cache as it is then
FindAnyTile(found) ==
    /\ wheel' = [find_any_tile(wheel, found) EXCEPT
                    !.event = "find_any_tile", !.old_zoom = wheel.zoom,
                    !.zoomChanged = <<>>, !.raised = ""]
    /\ UNCHANGED <<files, dirs, complete, bound, srv, hnd, backlog, last, issued,
                   inputs, owner, view, prefetch, manager>>

\* init_map is called on the view: no signal is emitted
InitMap ==
    /\ wheel' = [init_map(wheel) EXCEPT
                    !.event = "init_map", !.old_zoom = wheel.zoom,
                    !.zoomChanged = <<>>, !.raised = ""]
    /\ UNCHANGED <<files, dirs, complete, bound, srv, hnd, backlog, last, issued,
                   inputs, owner, view, prefetch, manager>>

\* a map view built with any initial zoom level, with or without a sample
\* tile in the cache
InitWheel ==
    /\ InitTiles({}, {}, {})
    /\ owner = [s \in Servers |-> "running"]
    /\ view = NoView
    /\ prefetch = NoPrefetch
    /\ manager = NoManager
    /\ \E initial_zoom \in MIN_ZOOM..MAX_ZOOM, sample \in SampleZooms \cup {None} :
          wheel = MapView(initial_zoom, sample)

\* wheelEvent with event.angleDelta().y() of one notch away from the user,
\* of a horizontal scroll and of one notch towards the user; find_any_tile
\* and init_map
NextWheel ==
    \/ \E delta \in {120, 0, 0 - 120}, cursor \in {"map", "south", "far"} :
          WheelEvent(delta, cursor)
    \/ \E found \in SampleZooms \cup {None} : FindAnyTile(found)
    \/ InitMap

SpecWheel == InitWheel /\ [][NextWheel]_vars


(***************************************************************************)
(* Properties of the tile cache                                            *)
(***************************************************************************)
\* the key of a request that reaches get_tile
KeyOf(r) == get_tile_path(r.path)

\* r is a request the model has seen that reaches get_tile
IsTileReq(r) == r.id # 0 /\ IsTopoTile(r.path)

\* server s answers a request in this step
Answers(s) == last'[s] # last[s]

\* the handler of server s leaves do_GET's final part: it answers from pc
AnswersFrom(s, pc) == hnd[s].pc = pc /\ hnd'[s].pc = "idle"

\* server s takes a request for a tile out of its queue in this step
Takes(s) ==
    /\ backlog[s] # <<>>
    /\ backlog'[s] = Tail(backlog[s])
    /\ IsTopoTile(Head(backlog[s]).path)

\* the bodies of the upstream answers that count as a tile
TileBodies == UpBodies \ {<<>>}

\* the servers with an upstream request for key in flight
InFlight(key) == {s \in Servers : hnd[s].pc = "urlopen" /\ hnd[s].tile_path = key}

\* C1: at every instant at most one upstream fetch is in flight for a tile
\* key, whatever the number of requests for it and whichever server
\* instances sharing the cache directory they arrive at
C1_OneFetchInFlight ==
    \A s \in Servers :
        hnd[s].pc = "urlopen" => Cardinality(InFlight(hnd[s].tile_path)) <= 1

\* the answer a is the outcome of a cache lookup or of an upstream call, with
\* no disk error and no uncaught exception on the way
Regular(a) == ~a.crashed /\ (a.req.tries = 1 \/ a.status = 200)

\* the regular answers the servers gave last to requests that reached get_tile
TileAnswers ==
    {last[s] : s \in {t \in Servers : IsTileReq(last[t].req) /\ Regular(last[t])}}

\* C2: requests for one absent key that are pending at the same time cause
\* exactly one upstream call between them and end with the same status and
\* the same bytes
C2_ConcurrentRequestsOneCall ==
    \A a \in TileAnswers : \A b \in TileAnswers :
        (/\ a.req.id \in b.req.pend
         /\ KeyOf(a.req) = KeyOf(b.req)
         /\ a.req.tries + b.req.tries >= 1)
        => (/\ a.req.tries + b.req.tries = 1
            /\ a.status = b.status
            /\ a.body = b.body)

\* C3: a request that misses the cache, gets 200 with a non-empty body B
\* from the upstream and stores it is answered 200 with body B, and the tile
\* file then holds B
C3_FetchedTileServed ==
    [][\A s \in Servers :
          (/\ AnswersFrom(s, "send")
           /\ hnd[s].req.tries = 1
           /\ hnd[s].req.up.status = 200
           /\ hnd[s].req.up.body # <<>>)
          => (/\ last'[s].status = 200
              /\ last'[s].body = hnd[s].req.up.body
              /\ hnd[s].tile_path \in DOMAIN files'
              /\ files'[hnd[s].tile_path] = hnd[s].req.up.body)]_vars

\* C4: a tile request whose key is in the cache when it is handled makes no
\* upstream call and is answered 200 with the bytes of the cached file
C4_CacheHitNoUpstream ==
    [][\A s \in Servers :
          /\ (Takes(s) /\ exists(KeyOf(Head(backlog[s]))))
             => (/\ hnd'[s].pc = "send"
                 /\ hnd'[s].req.tries = 0)
          /\ (AnswersFrom(s, "send") /\ hnd[s].req.tries = 0)
             => (/\ last'[s].status = 200
                 /\ last'[s].body = files[hnd[s].tile_path]
                 /\ last'[s].req.tries = 0)]_vars

\* a request sent after every earlier one was answered got 200 out of the
\* cache without any upstream call
C4_Witness ==
    \E s \in Servers :
        /\ IsTileReq(last[s].req)
        /\ last[s].req.id > 1
        /\ last[s].req.pend = {}
        /\ last[s].req.tries = 0
        /\ last[s].status = 200

\* the upstream call ended in a network error or a status other than 200
UpstreamError(up) == up.kind \in {"refused", "reset"} \/ up.status # 200

\* C5: when the upstream call of a request ends in a network error or a
\* status other than 200, the request is answered 404 and no tile file
\* exists for its key afterwards
C5_UpstreamErrorIs404 ==
    [][\A s \in Servers :
          (/\ Answers(s)
           /\ hnd[s].pc # "idle"
           /\ last'[s].req.tries = 1
           /\ UpstreamError(last'[s].req.up))
          => (/\ last'[s].status = 404
              /\ hnd[s].tile_path \notin DOMAIN files')]_vars

\* C6: an upstream answer 200 with an empty body is a failed fetch: the
\* request is answered 404 and the key stays absent from the cache
C6_EmptyBodyIsFailure ==
    [][\A s \in Servers :
          (/\ Answers(s)
           /\ hnd[s].pc # "idle"
           /\ ~last'[s].crashed
           /\ last'[s].req.tries = 1
           /\ last'[s].req.up.kind = "http"
           /\ last'[s].req.up.status = 200
           /\ last'[s].req.up.body = <<>>)
          => (/\ last'[s].status = 404
              /\ hnd[s].tile_path \notin DOMAIN files')]_vars

\* the upstream call made for request r failed: no answer, a status other
\* than 200, a broken or an empty body
FetchFailed(r) ==
    r.tries > 0 /\ (r.up.kind # "http" \/ r.up.status # 200 \/ r.up.body = <<>>)

\* the request answered last for key, over all the servers, was answered by
\* server s, and no server is handling a request for key
LastFor(s, key) ==
    /\ IsTileReq(last[s].req)
    /\ KeyOf(last[s].req) = key
    /\ \A t \in Servers :
         /\ (IsTileReq(last[t].req) /\ KeyOf(last[t].req) = key)
            => last[t].req.id <= last[s].req.id
         /\ hnd[t].pc # "idle" => hnd[t].tile_path # key

\* C7: a request makes at most one upstream attempt, and after a failed
\* attempt the next request for the same key makes a new one, which caches
\* the tile when the upstream answers 200 with a body
C7_FailureNotCached ==
    [][\A t \in Servers :
          /\ hnd'[t].req.tries <= 1
          /\ (/\ Takes(t)
              /\ \E s \in Servers :
                   /\ LastFor(s, KeyOf(Head(backlog[t])))
                   /\ FetchFailed(last[s].req)
                   /\ ~last[s].crashed)
             => (/\ hnd'[t].pc = "urlopen"
                 /\ hnd'[t].req.tries = 1)]_vars

\* C8: no step removes a tile file from the cache
C8_TileNeverRemoved ==
    [][\A key \in DOMAIN files : key \in DOMAIN files']_vars

\* a tile file is in the cache, the server that wrote it has been stopped,
\* and a later download for the same key has failed
C8_Witness ==
    \E key \in DOMAIN files :
        /\ \E t \in Servers : srv[t].st = "Stopped" /\ srv[t].server
        /\ \E s \in Servers :
             /\ IsTileReq(last[s].req)
             /\ KeyOf(last[s].req) = key
             /\ last[s].crashed
             /\ last[s].req.id > 1

\* C9: the content of a tile file that was written to the end never changes
C9_TileNeverRewritten ==
    [][\A key \in complete : files'[key] = files[key]]_vars

\* C10: a tile file that exists holds the complete body of a successful
\* upstream answer, and so does every 200 answer to a tile request
C10_NoPartialTile ==
    /\ \A key \in DOMAIN files : files[key] \in TileBodies
    /\ \A s \in Servers :
         (IsTileReq(last[s].req) /\ last[s].status = 200)
         => last[s].body \in TileBodies

(***************************************************************************)
(* Properties of concurrency, start-up and shutdown                        *)
(***************************************************************************)
\* the servers whose handler holds the tile file of key open for writing
Writing(key) == {s \in Servers : hnd[s].pc = "write" /\ hnd[s].tile_path = key}

\* C11: for every tile key, at most one write to its cache path is in
\* progress at any time
C11_OneWriteInProgress ==
    \A s \in Servers :
        hnd[s].pc = "write" => Cardinality(Writing(hnd[s].tile_path)) <= 1

\* the step of server s ends a request because the disk refused: makedirs
\* raised in get_tile_path, or open or write raised in download_tile
DiskFailure(s) ==
    \/ Takes(s) /\ hnd'[s].pc = "idle"
    \/ AnswersFrom(s, "open") /\ hnd[s].req.up.body \in TileBodies
    \/ AnswersFrom(s, "write") /\ hnd[s].req.up.body \in TileBodies

\* C12: a disk failure while a fetched tile is cached does not propagate as
\* an exception: the request is answered 404, the key stays a cache miss,
\* and the server goes on listening
C12_DiskFailureIs404 ==
    [][\A s \in Servers :
          DiskFailure(s)
          => (/\ last'[s].status = 404
              /\ ~last'[s].crashed
              /\ KeyOf(last'[s].req) \notin DOMAIN files'
              /\ srv'[s] = srv[s])]_vars

\* a request for path needs no upstream call: the tile is in the cache, or
\* the path names a file of the resource directory
ServedLocally(path) ==
    \/ IsTopoTile(path) /\ exists(get_tile_path(path))
    \/ /\ ~IsTileRequest(path)
       /\ contains(path, <<"/">> \o RESOURCES \o <<"/">>)
       /\ IsLocalFile(os_path_join(RESOURCE_DIR, remove(path, <<"/">> \o RESOURCES \o <<"/">>)))

\* C13: while the handler of a listening server is blocked in an upstream
\* fetch, the server can take up a waiting request for a cached tile or a
\* static resource: that request does not wait for the fetch to finish
C13_SlowFetchDoesNotStall ==
    \A s \in Servers :
        (/\ srv[s].st = "Listening"
         /\ ~srv[s].shut
         /\ hnd[s].pc = "urlopen"
         /\ backlog[s] # <<>>
         /\ ServedLocally(Head(backlog[s]).path))
        => ENABLED do_GET(s)

\* server s starts to listen in this step
StartsListening(s) == srv[s].st # "Listening" /\ srv'[s].st = "Listening"

\* the thread of server s binds its port in this step
Binds(s) == srv[s].sock = 0 /\ srv'[s].sock # 0

\* C14: a starting server binds the lowest candidate port that is free: the
\* port is one of 8080..8099, every candidate below it is in use, and no
\* step binds a port outside the candidates
C14_LowestFreePort ==
    [][/\ (bound' \ bound) \subseteq CandidatePorts
       /\ \A s \in Servers :
            /\ Binds(s)
               => (/\ srv'[s].sock \in CandidatePorts
                   /\ srv'[s].sock \notin bound
                   /\ bound' = bound \cup {srv'[s].sock}
                   /\ \A q \in FirstPort..(srv'[s].sock - 1) : q \in bound)
            /\ StartsListening(s)
               => (srv[s].sock \in bound /\ srv'[s].port = srv[s].sock)]_vars

\* 8080 and 8082 are held by others: one server listens on 8081 and the
\* server started after it on 8083
C14_Witness ==
    \E s \in Servers : \E t \in Servers :
        /\ {FirstPort, FirstPort + 2} \subseteq bound
        /\ srv[s].st = "Listening" /\ srv[s].port = FirstPort + 1
        /\ srv[t].st = "Listening" /\ srv[t].port = FirstPort + 3

\* C15: a server that finds every candidate port in use does not listen,
\* does not try again, and tells its owner: the owner receives a signal
\* that the start failed
C15_ExhaustionReported ==
    [][\A s \in Servers :
          /\ (/\ srv[s].st = "Starting" /\ srv[s].sock = 0
              /\ FreePorts = {} /\ srv'[s] # srv[s])
             => (/\ srv'[s].st = "Stopped"
                 /\ Len(srv'[s].emitted) = Len(srv[s].emitted) + 1)
          /\ (srv[s].st = "Stopped" /\ ~srv[s].server) => srv'[s] = srv[s]]_vars

\* C16: the owner receives the port once, when the listener is bound and
\* before a request is handled, and while the server listens the reported
\* port is self.port, is held by the listener and by no other server
C16_PortReportedOnce ==
    \A s \in Servers :
        /\ Len(srv[s].emitted) <= 1
        /\ srv[s].emitted # <<>> => (srv[s].server /\ srv[s].emitted[1] \in bound)
        /\ (hnd[s].pc # "idle" \/ last[s].req.id # 0) => Len(srv[s].emitted) = 1
        /\ srv[s].st = "Listening"
           => (/\ srv[s].emitted = <<srv[s].port>>
               /\ \A t \in Servers \ {s} :
                    srv[t].emitted # <<>> => srv[t].emitted[1] # srv[s].port)

\* two servers listen, one of them on a port other than the default of
\* self.port, and it has answered a request
C16_Witness ==
    \E s \in Servers : \E t \in Servers \ {s} :
        /\ srv[s].st = "Listening" /\ srv[t].st = "Listening"
        /\ srv[s].emitted = <<FirstPort + 3>>
        /\ last[s].status = 200

\* the lifecycle steps a tile server may take
Lifecycle ==
    {<<"Stopped", "Starting">>, <<"Starting", "Listening">>,
     <<"Listening", "Stopped">>, <<"Starting", "Stopped">>}

\* C17: the state of a server changes only along Stopped -> Starting ->
\* Listening -> Stopped, or Starting -> Stopped; it listens only after a
\* bind that succeeded in Starting, and handles requests only in Listening
C17_LifecycleOrder ==
    [][\A s \in Servers :
          /\ srv'[s].st # srv[s].st => <<srv[s].st, srv'[s].st>> \in Lifecycle
          /\ StartsListening(s)
             => (/\ srv[s].st = "Starting"
                 /\ srv[s].sock \in bound
                 /\ srv[s].sock \notin {srv[t].sock : t \in Servers \ {s}})
          /\ (hnd'[s] # hnd[s] \/ last'[s] # last[s]) => srv[s].st = "Listening"
          /\ hnd'[s].pc # "idle" => srv'[s].st = "Listening"]_vars

\* one server found no port and stopped, another has listened, answered a
\* tile request and stopped
C17_Witness ==
    \E s \in Servers : \E t \in Servers :
        /\ srv[s].st = "Stopped" /\ ~srv[s].server
        /\ srv[t].st = "Stopped" /\ srv[t].server
        /\ last[t].status = 200

\* C18: once shutdown is requested the server takes no request out of its
\* queue any more, and the request its handler is working on runs to its
\* end before the server stops
C18_ShutdownDrains ==
    [][\A s \in Servers :
          /\ srv[s].shut => ~(backlog[s] # <<>> /\ backlog'[s] = Tail(backlog[s]))
          /\ (srv[s].st = "Listening" /\ srv'[s].st = "Stopped") => hnd[s].pc = "idle"
          /\ (srv[s].shut /\ hnd[s].pc # "idle" /\ hnd'[s].pc = "idle")
             => last'[s].req.id = hnd[s].req.id
          /\ (~srv[s].shut /\ srv'[s].shut) => hnd'[s] = hnd[s]]_vars

\* the server has stopped after answering the request that was in progress
\* when a later request arrived, and that later request is still unserved
C18_Witness ==
    \E s \in Servers :
        /\ srv[s].st = "Stopped"
        /\ srv[s].shut
        /\ last[s].status = 200
        /\ backlog[s] # <<>>
        /\ last[s].req.id \in Head(backlog[s]).pend

(***************************************************************************)
(* Properties of request parsing                                           *)
(***************************************************************************)
\* server s takes the request at the head of its queue in this step
TakesHead(s) == backlog[s] # <<>> /\ backlog'[s] = Tail(backlog[s])

\* the step answers the request it takes with status and text at once:
\* no upstream call, nothing created in the cache, the server as before
AnsweredLocally(s, status, text) ==
    /\ last'[s].req = Head(backlog[s])
    /\ last'[s].status = status
    /\ last'[s].text = text
    /\ ~last'[s].crashed
    /\ last'[s].req.tries = 0
    /\ hnd'[s].pc = "idle"
    /\ files' = files
    /\ dirs' = dirs
    /\ srv' = srv

\* a well-formed integer: decimal digits after an optional sign
WellFormedInteger(s) ==
    LET b == IF Len(s) > 0 /\ s[1] \in {"-", "+"} THEN Tail(s) ELSE s
    IN Len(b) > 0 /\ \A i \in 1..Len(b) : b[i] \in Digits

\* the tile request has a y segment, and its zoom, x and y are well-formed
\* integers
WellFormedTile(path) ==
    LET parts == Parts(path) IN
    /\ Len(parts) >= 6
    /\ WellFormedInteger(parts[4])
    /\ WellFormedInteger(Stem(parts[5]))
    /\ WellFormedInteger(Stem(parts[6]))

\* C19: a tile request whose zoom, x or y segment is not a well-formed
\* integer, or that has no y segment, is answered 400 without an upstream
\* call, without a new file or directory in the cache, and the server goes
\* on listening
C19_MalformedIs400 ==
    [][\A s \in Servers :
          (/\ TakesHead(s)
           /\ IsTileRequest(Head(backlog[s]).path)
           /\ ~WellFormedTile(Head(backlog[s]).path))
          => AnsweredLocally(s, 400, "Invalid tile request")]_vars

\* C20: a tile request with integer zoom, x and y whose source is not topo
\* is answered 404 without an upstream call, without a new file or
\* directory in the cache, and the server goes on listening
C20_UnknownSourceIs404 ==
    [][\A s \in Servers :
          (/\ TakesHead(s)
           /\ IsTileRequest(Head(backlog[s]).path)
           /\ TileParseOk(Head(backlog[s]).path)
           /\ lower(Parts(Head(backlog[s]).path)[3]) # <<"t", "o", "p", "o">>)
          => AnsweredLocally(s, 404, "")]_vars

\* a listening server has answered 404 to a request for an OSM tile after
\* it has cached a TOPO tile with the same coordinates
C20_Witness ==
    \E s \in Servers :
        /\ srv[s].st = "Listening"
        /\ last[s].req.path = PathOSM
        /\ last[s].status = 404
        /\ last[s].req.tries = 0
        /\ DOMAIN files = {get_tile_path(PathA)}

(***************************************************************************)
(* Properties of static resources and unmatched paths                      *)
(***************************************************************************)
\* path starts with /resources/
IsResourcePath(path) == MatchAt(path, <<"/">> \o RESOURCES \o <<"/">>, 1)

\* the segments of an absolute path with '', '.' and '..' taken out
RECURSIVE Normal(_, _)
Normal(segs, acc) ==
    IF segs = <<>> THEN acc
    ELSE IF segs[1] = <<>> \/ segs[1] = <<".">> THEN Normal(Tail(segs), acc)
    ELSE IF segs[1] = <<".", ".">>
         THEN Normal(Tail(segs), IF acc = <<>> THEN acc ELSE SubSeq(acc, 1, Len(acc) - 1))
    ELSE Normal(Tail(segs), Append(acc, segs[1]))

\* the file system path a resource request names, in normal form
ResolvedPath(path) ==
    <<"/">> \o join(Normal(split(os_path_join(RESOURCE_DIR,
                         remove(path, <<"/">> \o RESOURCES \o <<"/">>)), "/"), <<>>))

\* the canonical path p lies below the resource root
UnderRoot(p) == MatchAt(p, RESOURCE_DIR \o <<"/">>, 1)

\* the bytes of the files outside the resource root
OutsideBodies ==
    {DiskFiles[f] : f \in {g \in DOMAIN DiskFiles : ~UnderRoot(g)}} \ {<<>>}

\* C21: a resource request whose path resolves outside the resource root is
\* answered 404, and no answer carries the bytes of a file outside the root
C21_NoEscapeFromRoot ==
    [][\A s \in Servers :
          /\ (/\ TakesHead(s)
              /\ IsResourcePath(Head(backlog[s]).path)
              /\ ~UnderRoot(ResolvedPath(Head(backlog[s]).path)))
             => last'[s].status = 404
          /\ (TakesHead(s) /\ IsResourcePath(Head(backlog[s]).path))
             => last'[s].body \notin OutsideBodies]_vars

\* the extensions a resource is served for, with their content types
KnownTypes ==
    {<<<<".", "j", "s">>, "application/javascript">>,
     <<<<".", "c", "s", "s">>, "text/css">>,
     <<<<".", "p", "n", "g">>, "image/png">>}

\* C22: a resource request is answered 200 only for an existing file below
\* the resource root with extension .js, .css or .png, with the content
\* type of the extension; every other resource request is answered 404
\* (stated for the paths that stay below the root and name no directory)
C22_ResourceTypes ==
    [][\A s \in Servers :
          (/\ TakesHead(s)
           /\ IsResourcePath(Head(backlog[s]).path)
           /\ UnderRoot(ResolvedPath(Head(backlog[s]).path))
           /\ ResolvedPath(Head(backlog[s]).path) \notin DiskDirs)
          => LET p == ResolvedPath(Head(backlog[s]).path)
                 servable ==
                     /\ UnderRoot(p)
                     /\ p \in DOMAIN LocalFiles
                     /\ \E k \in KnownTypes : endswith(p, k[1])
             IN IF servable
                THEN /\ last'[s].status = 200
                     /\ \E k \in KnownTypes :
                          endswith(p, k[1]) /\ last'[s].ctype = k[2]
                     /\ last'[s].body = LocalFiles[p]
                ELSE last'[s].status = 404]_vars

\* C23: a request that is neither a tile request nor starts with
\* /resources/ is answered 404, also when '/resources/' occurs later in the
\* path
C23_UnmatchedIs404 ==
    [][\A s \in Servers :
          (/\ TakesHead(s)
           /\ ~IsTileRequest(Head(backlog[s]).path)
           /\ ~IsResourcePath(Head(backlog[s]).path))
          => (last'[s].status = 404 /\ last'[s].body = <<>>)]_vars

(***************************************************************************)
(* Properties of the cache layout                                          *)
(***************************************************************************)
\* the path is a tile request for the topo source in any letter case, with
\* integer zoom, x and y
IsTopoAnyCase(path) ==
    /\ IsTileRequest(path)
    /\ TileParseOk(path)
    /\ lower(Parts(path)[3]) = <<"t", "o", "p", "o">>

\* {cache_root}/TOPO/{zoom}/{x}/{y}.png for the integers of the request
LayoutPath(path) ==
    LET parts == Parts(path) IN
    join(<<CACHE_DIR, TOPO, str(int(parts[4])), str(int(Stem(parts[5]))),
           str(int(Stem(parts[6]))) \o PNG>>)

\* the integers of a tile request
Coordinates(path) ==
    LET parts == Parts(path) IN
    <<int(parts[4]), int(Stem(parts[5])), int(Stem(parts[6]))>>

\* C24: the file a tile request is looked up in and stored to is
\* {cache_root}/TOPO/{zoom}/{x}/{y}.png whatever the letter case of the
\* source, so that a tile cached through one spelling is a hit for the
\* others; every file that appears in the cache lies at such a path, and
\* requests with distinct (zoom, x, y) use distinct paths
C24_CacheLayout ==
    [][/\ \A s \in Servers :
            (TakesHead(s) /\ IsTopoAnyCase(Head(backlog[s]).path))
            => LET path == Head(backlog[s]).path
                   layout == LayoutPath(path)
               IN
               /\ hnd'[s].pc # "idle" => CachePath(hnd'[s].tile_path) = layout
               /\ (\E key \in DOMAIN files : CachePath(key) = layout)
                  => (hnd'[s].pc = "send" /\ hnd'[s].req.tries = 0)
               /\ \A q \in inputs :
                    (IsTopoAnyCase(q) /\ Coordinates(q) # Coordinates(path))
                    => LayoutPath(q) # layout
       /\ \A key \in DOMAIN files' \ DOMAIN files :
            \E path \in inputs : IsTopoAnyCase(path) /\ CachePath(key) = LayoutPath(path)]_vars

\* the tile 14/1/2 was fetched for a request spelled TOPO, and the next
\* request, spelled Topo, is a cache hit about to be answered
C24_Witness ==
    \E s \in Servers :
        /\ DOMAIN files = {get_tile_path(PathA)}
        /\ last[s].req.path = PathA
        /\ last[s].req.tries = 1
        /\ last[s].status = 200
        /\ hnd[s].pc = "send"
        /\ hnd[s].req.path = PathMixed
        /\ hnd[s].req.tries = 0

(***************************************************************************)
(* Properties of the coordinate conversions                                *)
(***************************************************************************)
\* C25: world_pixel_to_tile(x, y) is (floor(x / 256), floor(y / 256)), also
\* for negative coordinates
C25_PixelToTileFloors ==
    view.op = "world_pixel_to_tile"
    => (/\ view.tile[1] * TILE_SIZE <= view.arg[1]
        /\ view.arg[1] < (view.tile[1] + 1) * TILE_SIZE
        /\ view.tile[2] * TILE_SIZE <= view.arg[2]
        /\ view.arg[2] < (view.tile[2] + 1) * TILE_SIZE)

\* C26: tile_to_world_pixel returns the origin (tx * 256, ty * 256) of the
\* tile, world_pixel_to_tile of that origin is (tx, ty) again, and every
\* pixel of the 256 x 256 square that starts at the origin of (tx, ty) is
\* converted to (tx, ty)
C26_TileOriginInverse ==
    [][/\ view'.op = "tile_to_world_pixel"
          => view'.pixel = <<view.tile[1] * TILE_SIZE, view.tile[2] * TILE_SIZE>>
       /\ (view.op = "tile_to_world_pixel" /\ view'.op = "world_pixel_to_tile")
          => view'.tile = view.arg
       /\ view'.op = "world_pixel_to_tile"
          => \A t \in Tiles \X Tiles :
                (/\ 0 <= view.pixel[1] - t[1] * TILE_SIZE
                 /\ view.pixel[1] - t[1] * TILE_SIZE < TILE_SIZE
                 /\ 0 <= view.pixel[2] - t[2] * TILE_SIZE
                 /\ view.pixel[2] - t[2] * TILE_SIZE < TILE_SIZE)
                => view'.tile = t]_vars

(***************************************************************************)
(* Properties of the prefetch pass                                         *)
(***************************************************************************)
\* C28: a prefetch pass of radius r enumerates (2r+1)^2 keys, keeps those
\* with both indices in 0 .. 2^zoom - 1, submits a fetch for a key exactly
\* when the store does not hold it, and goes on after a failed fetch: when
\* it returns every kept key is in the store or has had its fetch submitted
C28_PrefetchRegion ==
    [][/\ (prefetch.st = "idle" /\ prefetch'.st = "running")
          => LET r == prefetch'.radius
                 side == 2 * r + 1
             IN /\ Cardinality(prefetch'.square) = side * side
                /\ prefetch'.todo =
                     {k \in prefetch'.square :
                        /\ 0 <= k[2] /\ k[2] <= Pow2(k[1]) - 1
                        /\ 0 <= k[3] /\ k[3] <= Pow2(k[1]) - 1}
       /\ \A key \in prefetch.todo \ prefetch'.todo :
            (key \in prefetch'.submitted) <=> (key \notin prefetch.store)
       /\ prefetch'.submitted \ prefetch.submitted \subseteq prefetch.todo
       /\ prefetch'.failed # prefetch.failed
          => (prefetch'.todo = prefetch.todo /\ prefetch'.st = prefetch.st)
       /\ (prefetch.st = "running" /\ prefetch.todo # {})
          => prefetch'.st = "running"
       /\ prefetch'.st = "done"
          => \A k \in prefetch'.square :
                (k[2] \in ValidRange(k[1]) /\ k[3] \in ValidRange(k[1]))
                => (k \in prefetch'.submitted \/ k \in prefetch'.store)]_vars

\* a pass of radius 1 has returned: it enumerated 9 keys, skipped a key the
\* store held, and submitted fetches after one of its fetches had failed
C28_Witness ==
    /\ prefetch.st = "done"
    /\ prefetch.radius = 1
    /\ Cardinality(prefetch.square) = 9
    /\ Cardinality(prefetch.submitted) >= 2
    /\ prefetch.failed # {}
    /\ \E k \in Clip(prefetch.square) : k \notin prefetch.submitted
    /\ \E k \in prefetch.submitted : k \in prefetch.store

(***************************************************************************)
(* Properties of stopping                                                  *)
(***************************************************************************)
\* C29: the port of a server that has stopped is free again: a server that
\* binds after the stop binds that port, or a lower one, not the next one
C29_PortFreedAfterStop ==
    [][\A s \in Servers : \A t \in Servers :
          (/\ Binds(s)
           /\ srv[t].st = "Stopped"
           /\ srv[t].server)
          => srv'[s].sock <= srv[t].port]_vars

\* C30: a stop() is never lost, so that the server thread ends and wait()
\* returns: while the owner of a server waits, a server that listens has
\* been asked to shut down (no one asks it later)
C30_StopNotLost ==
    \A s \in Servers :
        (owner[s] = "waiting" /\ srv[s].st = "Listening") => srv[s].shut

(***************************************************************************)
(* C31: every request the server has handled was answered with one status  *)
(* line, 200, 400 or 404, and a 200 was followed by the whole content of    *)
(* the file: the handler did not end with an exception before or after the  *)
(* status line.                                                             *)
(***************************************************************************)
C31_OneStatusLine ==
    \A s \in Servers :
        last[s].req.id # 0
        => /\ last[s].status \in {200, 400, 404}
           /\ ~last[s].crashed

(***************************************************************************)
(* C32: in every state of the area manager selected_area_id is None or the  *)
(* id of an area in the registry.                                           *)
(***************************************************************************)
C32_SelectionInRegistry ==
    manager.selected_area_id = None \/ manager.selected_area_id \in KeySet(manager)

\* an area has been removed while another one is selected
C32_Witness ==
    /\ manager.call.op = "remove_area"
    /\ manager.call.ret
    /\ manager.emitted = <<<<"area_removed", manager.call.id>>>>
    /\ manager.selected_area_id # None
    /\ manager.selected_area_id \in KeySet(manager)

(***************************************************************************)
(* C33: a load_from_file that returns False leaves the registry and the     *)
(* selection as they were before the call and emits neither area_added nor  *)
(* area_removed.                                                            *)
(***************************************************************************)
C33_FailedLoadChangesNothing ==
    [][(manager'.call.op = "load_from_file" /\ ~manager'.call.ret)
       => /\ manager'.areas = manager.areas
          /\ manager'.selected_area_id = manager.selected_area_id
          /\ \A i \in 1..Len(manager'.emitted) :
                manager'.emitted[i][1] \notin {"area_added", "area_removed"}]_vars

(***************************************************************************)
(* C34: load_from_file of the file that save_to_file has written returns    *)
(* True and leaves in the registry exactly the areas that were saved, with  *)
(* the ids, bounds, names and metadata they had, whatever the registry held *)
(* before the load.                                                         *)
(***************************************************************************)
AreaSet(areas) == {areas[i] : i \in 1..Len(areas)}

C34_SaveLoadRestores ==
    [][(manager'.call.op = "load_from_file" /\ manager.saved.valid)
       => /\ manager'.call.ret
          /\ AreaSet(manager'.areas) = AreaSet(manager.saved.areas)
          /\ Len(manager'.areas) = Len(manager.saved.areas)]_vars

(***************************************************************************)
(* C35: update_area, remove_area and select_area called with an id that is  *)
(* not in the registry (and is not None) return False, leave the registry   *)
(* and the selection unchanged and emit no signal.                          *)
(***************************************************************************)
C35_UnknownIdChangesNothing ==
    [][(/\ manager'.calls # manager.calls
        /\ manager'.call.op \in {"update_area", "remove_area", "select_area"}
        /\ manager'.call.id \notin KeySet(manager)
        /\ manager'.call.id # None)
       => /\ ~manager'.call.ret
          /\ manager'.areas = manager.areas
          /\ manager'.selected_area_id = manager.selected_area_id
          /\ manager'.emitted = <<>>
          /\ manager'.relayed = <<>>]_vars

\* select_area has refused an id that is not in the registry while another
\* area is selected
C35_Witness ==
    /\ manager.call.op = "select_area"
    /\ ~manager.call.ret
    /\ manager.call.id \notin KeySet(manager)
    /\ manager.selected_area_id \in KeySet(manager)
    /\ manager.emitted = <<>>

(***************************************************************************)
(* C36: a successful add_area, update_area or remove_area emits its signal  *)
(* once, after the registry has been updated; MapBridge relays every        *)
(* area_added as one areaAdded that carries the bounds of the area added,   *)
(* and every area_removed, those of clear_all_areas included, as one        *)
(* areaRemoved.                                                             *)
(***************************************************************************)
BridgeSignal(signal) ==
    CASE signal = "area_added" -> "areaAdded"
      [] signal = "area_modified" -> "areaModified"
      [] signal = "area_removed" -> "areaRemoved"
      [] signal = "area_selected" -> "areaSelected"

C36_SignalsOncePerChange ==
    [][manager'.calls # manager.calls
       => LET m == manager'
              op == m.call.op
              id == m.call.id
          IN /\ Len(m.relayed) = Len(m.emitted)
             /\ \A i \in 1..Len(m.emitted) :
                   /\ m.relayed[i][1] = BridgeSignal(m.emitted[i][1])
                   /\ m.relayed[i][2] = m.emitted[i][2]
             /\ op = "add_area"
                => /\ m.emitted = <<<<"area_added", id>>>>
                   /\ id \in KeySet(m)
                   /\ m.relayed = <<<<"areaAdded", id, get_area(m, id).bounds>>>>
             /\ (op = "update_area" /\ m.call.ret)
                => /\ m.emitted = <<<<"area_modified", id>>>>
                   /\ m.relayed = <<<<"areaModified", id, get_area(m, id).bounds>>>>
             /\ (op = "remove_area" /\ m.call.ret)
                => /\ m.emitted = <<<<"area_removed", id>>>>
                   /\ id \notin KeySet(m)
                   /\ m.relayed = <<<<"areaRemoved", id, <<>>>>>>
             /\ op = "clear_all_areas"
                => /\ Len(m.relayed) = Len(manager.areas)
                   /\ \A a \in KeySet(manager) :
                         \E i \in 1..Len(m.relayed) :
                            m.relayed[i] = <<"areaRemoved", a, <<>>>>]_vars

\* clear_all_areas has removed two areas and the bridge has relayed two
\* areaRemoved
C36_Witness ==
    /\ manager.call.op = "clear_all_areas"
    /\ Len(manager.relayed) = 2
    /\ manager.relayed[1][1] = "areaRemoved"
    /\ manager.relayed[2][1] = "areaRemoved"
    /\ manager.relayed[1][2] # manager.relayed[2][2]
    /\ manager.areas = <<>>

(***************************************************************************)
(* C37: from an initial zoom in [1, 18] the zoom level of the map view      *)
(* stays in [1, 18] under wheel events, a wheel event changes it by at most *)
(* one level, and zoomChanged is emitted exactly by the wheel events that   *)
(* step the zoom level, once, with the zoom level the view holds after the  *)
(* event.                                                                   *)
(***************************************************************************)
\* the wheel event of this step steps the zoom level: towards more detail
\* below the maximum, towards less detail above the minimum
StepsZoom ==
    \/ wheel'.event = "in" /\ wheel.zoom < MAX_ZOOM
    \/ wheel'.event \in {"out", "zero"} /\ wheel.zoom > MIN_ZOOM

C37_ZoomWithinLimits ==
    [][wheel'.event \in {"in", "out", "zero"}
       => /\ wheel'.zoom \in MIN_ZOOM..MAX_ZOOM
          /\ wheel'.zoom - wheel.zoom \in {0 - 1, 0, 1}
          /\ wheel'.old_zoom = wheel.zoom
          /\ wheel'.zoomChanged # <<>> <=> StepsZoom
          /\ wheel'.zoomChanged # <<>> => wheel'.zoomChanged = <<wheel'.zoom>>]_vars

====
